---------------------------- MODULE Spec2Model ----------------------------
(***************************************************************************)
(* A model of the sandbox compiler's Manager (the orchestrator of the      *)
(* in-browser bundler): the Module Store, the registry of transpiled       *)
(* modules, the resolver with its directory-scoped cache, updateData,      *)
(* serialize and load.                                                     *)
(*                                                                         *)
(* A path or request string is modelled by its split on '/': the string    *)
(* '/node_modules/react/index.js' is <<"", "node_modules", "react",        *)
(* "index.js">>, the request './dep' is <<".", "dep">>, the bare request   *)
(* 'fs' is <<"fs">>, the sentinel '//empty.js' is <<"", "", "empty.js">>   *)
(* and the root '/' is <<"">>.  A string is absolute iff its first segment *)
(* is "".                                                                  *)
(***************************************************************************)
EXTENDS Naturals, Sequences, FiniteSets, TLC

VARIABLES
    transpiledModules,        \* path -> [module, tModules: query -> hash]
    transpiledModulesByHash,  \* hash -> TranspiledModule
    cachedPaths,              \* dirname -> (request -> resolved string)
    manifest,
    configurations,
    stage,
    hardReload,
    isFirstLoad,
    hmrStatus,
    transpileJobs,
    modules,                  \* this.modules: the last module map handed in
    combinedMetas,            \* fetch-npm-module's set of known npm paths
    fileResolver,             \* whether this.fileResolver is set up
    hmrStatusChangeListeners, \* the registered listeners, in the order of their registration
    notified,                 \* <<listener, status>> for each call of a listener by the last operation
    call,                     \* the asynchronous operation in flight, if any
    saved,                    \* the record the last serialize() returned
    last                      \* the last operation that returned, with its outcome

vars == <<transpiledModules, transpiledModulesByHash, cachedPaths, manifest, configurations, stage, hardReload, isFirstLoad, hmrStatus, transpileJobs, modules, combinedMetas, fileResolver, hmrStatusChangeListeners, notified, call, saved, last>>

-----------------------------------------------------------------------------
(* Finite maps *)

EmptyMap == [x \in {} |-> TRUE]

Put(f, k, v) == [x \in (DOMAIN f) \cup {k} |-> IF x = k THEN v ELSE f[x]]

Del(f, k) == [x \in (DOMAIN f) \ {k} |-> f[x]]

Has(f, k) == k \in DOMAIN f

Values(f) == {f[x] : x \in DOMAIN f}

-----------------------------------------------------------------------------
(* Path utilities *)

Last(s) == s[Len(s)]

Front(s) == SubSeq(s, 1, Len(s) - 1)

IsAbsolute(p) == Len(p) > 0 /\ p[1] = ""

RECURSIVE Normalize(_, _, _)
Normalize(segs, out, abs) ==
    IF segs = <<>> THEN out
    ELSE LET h == Head(segs)
             t == Tail(segs)
         IN  IF h = "" \/ h = "." THEN Normalize(t, out, abs)
             ELSE IF h = ".."
                  THEN IF out # <<>> /\ Last(out) # ".." THEN Normalize(t, Front(out), abs)
                       ELSE IF abs THEN Normalize(t, out, abs)
                       ELSE Normalize(t, Append(out, ".."), abs)
             ELSE Normalize(t, Append(out, h), abs)

\* pathUtils.join(a, b): concatenate, then normalise '.', '..' and empty segments.
join(a, b) ==
    LET abs == IsAbsolute(a) \/ (a = <<>> /\ IsAbsolute(b))
        body == Normalize(a \o b, <<>>, abs)
    IN  IF abs THEN <<"">> \o body
        ELSE IF body = <<>> THEN <<".">> ELSE body

\* pathUtils.dirname(p)
dirname(p) ==
    IF IsAbsolute(p)
    THEN IF Len(p) <= 2 THEN <<"">> ELSE Front(p)
    ELSE IF Len(p) <= 1 THEN <<".">> ELSE Front(p)

\* pathUtils.basename(p)
basename(p) == Last(p)

\* p.startsWith('/node_modules'): a character prefix, so the second segment
\* only has to begin with the letters node_modules.
SegmentsWithNodeModulesPrefix == {"node_modules"}

startsWithNodeModules(p) ==
    IsAbsolute(p) /\ Len(p) >= 2 /\ p[2] \in SegmentsWithNodeModulesPrefix

\* p.indexOf('/node_modules') !== 0 is the negation of the above.

\* The least i with p[i] = "node_modules" between two slashes, 0 if none:
\* where p.includes('/node_modules/') finds its match.
nodeModulesAt(p) ==
    LET hits == {i \in 2..(Len(p) - 1) : p[i] = "node_modules"}
    IN  IF hits = {} THEN 0 ELSE CHOOSE i \in hits : \A j \in hits : i <= j

\* A test that every joined path passes
includesSeparator(p) == Len(p) > 0

includesNodeModules(p) == nodeModulesAt(p) # 0

\* p.replace('/node_modules/', ''): the first match is cut out; what stood
\* before it is glued to what follows.  Only an empty prefix (a match at the
\* start of an absolute path) occurs in this model.
removeNodeModules(p) ==
    LET i == nodeModulesAt(p)
    IN  IF i = 0 THEN p
        ELSE IF i = 2 /\ p[1] = "" THEN SubSeq(p, 3, Len(p))
        ELSE SubSeq(p, 1, i - 1) \o SubSeq(p, i + 1, Len(p))

\* /^(\w|@\w)/.test(p): the string begins with a word character or a scope.
isDependencyRequest(p) == Len(p) > 0 /\ p[1] \notin {"", ".", ".."}

ScopeSegments == {"@babel"}

VersionSegments == {"17.0.0"}

\* getDependencyName(p): the package name a path starts with, with its scope
\* and with a version directory when one follows ('react/17.0.0').
getDependencyName(p) ==
    IF p = <<>> THEN <<"">>
    ELSE LET scoped == p[1] \in ScopeSegments /\ Len(p) >= 2
             n == IF scoped THEN 2 ELSE 1
             versioned == Len(p) > n /\ p[n + 1] \in VersionSegments
         IN  SubSeq(p, 1, IF versioned THEN n + 1 ELSE n)


-----------------------------------------------------------------------------
(* The universe of the model: paths, requests, codes, queries *)

IndexPath == <<"", "index.js">>

DepPath == <<"", "dep.js">>

PackageJsonPath == <<"", "package.json">>

ReactPath == <<"", "node_modules", "react", "index.js">>

\* '//empty.js', what the resolver answers for a module the browser field disables
EmptySentinel == <<"", "", "empty.js">>

\* '/var/task/node_modules/browser-resolve/empty.js', spared by updateData
BrowserResolveEmptyPath == <<"", "var", "task", "node_modules", "browser-resolve", "empty.js">>

\* SHIMMED_MODULE.path
ShimCanonicalPath == join(<<"", "node_modules">>, <<"empty", "index.js">>)

EmptyCode == "// empty"

\* What readFileSync hands its callback when the file is missing: the Error
\* object, which resolveModuleAsync stores as the module's code.
EnoentCode == "Error: Could not find (ENOENT)"

LibCode == "module.exports = lib"

\* package.json of the sandbox whose browser field is { "ws": false }
PackageJsonCode == "{ browser: { ws: false } }"

ReqDep == <<".", "dep">>

ReqFs == <<"fs">>

ReqReact == <<"react">>

ReqWs == <<"ws">>

ReqSys == <<"sys">>

\* The requests a code asks for when it is transpiled, in order
RequiresOf(code) ==
    CASE code = "v1" -> <<ReqFs>>
      [] code = "v2" -> <<ReqDep, ReqReact>>
      [] OTHER -> <<>>

\* Loader queries ('' and one loader prefix)
Queries == {"", "raw-loader"}

NoPath == <<>>

NoModule == [path |-> NoPath, code |-> "", requires |-> FALSE, downloaded |-> FALSE, parent |-> FALSE]

\* A source Module: requires is whether the packager supplied the requires
\* array, parent whether a loader emitted the module.
Module(path, code) == [path |-> path, code |-> code, requires |-> FALSE, downloaded |-> FALSE, parent |-> FALSE]

SHIMMED_MODULE == [path |-> ShimCanonicalPath, code |-> EmptyCode, requires |-> TRUE, downloaded |-> FALSE, parent |-> FALSE]

\* The shim under its own path
shimmedModuleAsIs(currentPath, path) == SHIMMED_MODULE

getShimmedModuleFromPath(currentPath, path) ==
    [SHIMMED_MODULE EXCEPT !.path = join(dirname(currentPath), path)]

\* The list without 'fs'
NODE_LIBS_WITHOUT_FS == {<<"dgram">>, <<"net">>, <<"tls">>, <<"module">>, <<"child_process">>}

NODE_LIBS == {<<"dgram">>, <<"net">>, <<"tls">>, <<"fs">>, <<"module">>, <<"child_process">>}

\* coreLibraries[name] || name
coreLibraries(name) == IF name = ReqSys THEN <<"tls">> ELSE name

\* preset.getAliasedPath(path) with '.*{{sandboxRoot}}' cut away
getPresetAliasedPath(path) ==
    IF path = <<"react-native">> THEN ReqReact ELSE path

-----------------------------------------------------------------------------
(* Transpiled modules *)

Hash(path, query) == <<path, query>>

NewTranspiledModule(module, query) ==
    [module |-> module, query |-> query, hash |-> Hash(module.path, query),
     source |-> FALSE, dependencies |-> {}, initiators |-> {},
     errors |-> FALSE, hasMissingDependencies |-> FALSE,
     isEntry |-> FALSE, isTestFile |-> FALSE, compilation |-> FALSE,
     hmrConfig |-> FALSE, hmrDirty |-> FALSE]

\* The state of the manager as one record, so that a handler is an operator
\* from state to state and handlers compose as the methods call each other.
This ==
    [transpiledModules |-> transpiledModules,
     transpiledModulesByHash |-> transpiledModulesByHash,
     cachedPaths |-> cachedPaths,
     manifest |-> manifest,
     configurations |-> configurations,
     stage |-> stage,
     hardReload |-> hardReload,
     isFirstLoad |-> isFirstLoad,
     hmrStatus |-> hmrStatus,
     transpileJobs |-> transpileJobs,
     modules |-> modules,
     combinedMetas |-> combinedMetas,
     fileResolver |-> fileResolver,
     hmrStatusChangeListeners |-> hmrStatusChangeListeners,
     notified |-> <<>>]

Becomes(S) ==
    /\ transpiledModules' = S.transpiledModules
    /\ transpiledModulesByHash' = S.transpiledModulesByHash
    /\ cachedPaths' = S.cachedPaths
    /\ manifest' = S.manifest
    /\ configurations' = S.configurations
    /\ stage' = S.stage
    /\ hardReload' = S.hardReload
    /\ isFirstLoad' = S.isFirstLoad
    /\ hmrStatus' = S.hmrStatus
    /\ transpileJobs' = S.transpileJobs
    /\ modules' = S.modules
    /\ combinedMetas' = S.combinedMetas
    /\ fileResolver' = S.fileResolver
    /\ hmrStatusChangeListeners' = S.hmrStatusChangeListeners
    /\ notified' = S.notified

\* tModule.resetTranspilation(): the source is dropped, the edges to the
\* dependencies are cut on both ends, errors are forgotten
resetTranspilation(S, h) ==
    LET tm == S.transpiledModulesByHash[h]
    IN  [S EXCEPT !.transpiledModulesByHash =
            [x \in DOMAIN S.transpiledModulesByHash |->
                IF x = h
                THEN [tm EXCEPT !.source = FALSE, !.dependencies = {}, !.errors = FALSE]
                ELSE [S.transpiledModulesByHash[x] EXCEPT !.initiators = @ \ {h}]]]

\* tModule.update(module): the new module replaces the old one, the
\* transpilation and the compilation are reset, and a module with an HMR
\* state becomes dirty
updateTModule(S, h, module) ==
    LET S1 == resetTranspilation(S, h)
    IN  [S1 EXCEPT !.transpiledModulesByHash[h].module = module,
                   !.transpiledModulesByHash[h].compilation = FALSE,
                   !.transpiledModulesByHash[h].hmrDirty = S.transpiledModulesByHash[h].hmrConfig]

\* tModule.dispose(manager): the module leaves the reverse-edge sets of its
\* neighbours
disposeTModule(S, h) ==
    [S EXCEPT !.transpiledModulesByHash =
        [x \in DOMAIN S.transpiledModulesByHash |->
            IF x = h
            THEN [S.transpiledModulesByHash[x] EXCEPT !.source = FALSE, !.dependencies = {}, !.initiators = {}, !.isEntry = FALSE, !.isTestFile = FALSE]
            ELSE [S.transpiledModulesByHash[x] EXCEPT !.initiators = @ \ {h}, !.dependencies = @ \ {h}]]]

-----------------------------------------------------------------------------
(* The Module Store *)

\* The entry of the path is written whether it exists or not
addModuleReplacing(S, module) ==
    [S EXCEPT !.transpiledModules = Put(@, module.path, [module |-> module, tModules |-> EmptyMap])]

addModule(S, module) ==
    IF Has(S.transpiledModules, module.path) THEN S
    ELSE [S EXCEPT !.transpiledModules = Put(@, module.path, [module |-> module, tModules |-> EmptyMap])]

addTranspiledModule(S, module, query) ==
    LET S1 == IF ~Has(S.transpiledModules, module.path) THEN addModule(S, module) ELSE S
        tm == NewTranspiledModule(module, query)
        entry == S1.transpiledModules[module.path]
    IN  [S1 EXCEPT
            !.transpiledModules = Put(@, module.path, [module |-> module, tModules |-> Put(entry.tModules, query, tm.hash)]),
            !.transpiledModulesByHash = Put(@, tm.hash, tm)]

\* The hash of the transpiled module getTranspiledModule returns
getTranspiledModuleHash(S, module, query) ==
    IF Has(S.transpiledModules, module.path) /\ Has(S.transpiledModules[module.path].tModules, query)
    THEN S.transpiledModules[module.path].tModules[query]
    ELSE Hash(module.path, query)

getTranspiledModule(S, module, query) ==
    LET S1 == IF ~Has(S.transpiledModules, module.path) THEN addModule(S, module) ELSE S
    IN  IF Has(S1.transpiledModules[module.path].tModules, query) THEN S1
        ELSE addTranspiledModule(S1, module, query)

getTranspiledModulesByModule(S, module) ==
    IF Has(S.transpiledModules, module.path)
    THEN Values(S.transpiledModules[module.path].tModules)
    ELSE {}

getTranspiledModules(S) == DOMAIN S.transpiledModulesByHash

getModules(S) == {S.transpiledModules[p].module : p \in DOMAIN S.transpiledModules}

\* removeTranspiledModule without `delete this.transpiledModulesByHash[hash]`
removeTranspiledModuleFromStoreOnly(S, h) ==
    [S EXCEPT !.transpiledModules =
        [@ EXCEPT ![S.transpiledModulesByHash[h].module.path].tModules = Del(@, S.transpiledModulesByHash[h].query)]]

removeTranspiledModule(S, h) ==
    LET tm == S.transpiledModulesByHash[h]
        p == tm.module.path
    IN  [S EXCEPT
            !.transpiledModulesByHash = Del(@, h),
            !.transpiledModules = [@ EXCEPT ![p].tModules = Del(@, tm.query)]]

RECURSIVE removeTModules(_, _)
removeTModules(S, hs) ==
    IF hs = {} THEN S
    ELSE LET h == CHOOSE x \in hs : TRUE
         IN  removeTModules(removeTranspiledModule(disposeTModule(S, h), h), hs \ {h})

\* The cache is left as it is
cachedPathsKept(S) == S

\* this.cachedPaths = {}: the file structure changed
clearCachedPaths(S) == [S EXCEPT !.cachedPaths = EmptyMap]

\* The entry of the path is deleted, its transpiled modules stay in the registry
removeModuleEntryOnly(S, module) ==
    [clearCachedPaths(S) EXCEPT !.transpiledModules = Del(@, module.path)]

\* removeModule(module) for a path the store holds
removeModule(S, module) ==
    LET S1 == clearCachedPaths(S)
        S2 == removeTModules(S1, Values(S1.transpiledModules[module.path].tModules))
    IN  [S2 EXCEPT !.transpiledModules = Del(@, module.path)]

\* The module is added under the new path and stays under the old one
moveModuleKeepingOldPath(S, module, newPath) ==
    addModule(S, [module EXCEPT !.path = newPath])

moveModule(S, module, newPath) ==
    addModule(removeModule(S, module), [module EXCEPT !.path = newPath])

RECURSIVE updateTModules(_, _, _)
updateTModules(S, hs, module) ==
    IF hs = {} THEN S
    ELSE LET h == CHOOSE x \in hs : TRUE
         IN  updateTModules(updateTModule(S, h, module), hs \ {h}, module)

\* updateModule(m) for a path the store holds
updateModule(S, m) ==
    LET S1 == [S EXCEPT !.transpiledModules[m.path].module = m]
    IN  updateTModules(S1, getTranspiledModulesByModule(S1, m), m)

-----------------------------------------------------------------------------
(* The resolver *)

\* isFile(p): returnValue, which is the answer when there is no callback or
\* no file resolver
isFile(S, p) ==
    IF S.stage = "transpilation"
    THEN Has(S.transpiledModules, p) \/ p \in S.combinedMetas
    ELSE Has(S.transpiledModules, p)

\* name + '.' + ext, for the names whose extended form the model uses
AddExt(seg, ext) ==
    CASE seg = "dep" /\ ext = "js" -> "dep.js"
      [] seg = "dep" /\ ext = "jsx" -> "dep.jsx"
      [] seg = "dep" /\ ext = "json" -> "dep.json"
      [] seg = "index" /\ ext = "js" -> "index.js"
      [] seg = "index" /\ ext = "jsx" -> "index.jsx"
      [] seg = "index" /\ ext = "json" -> "index.json"
      [] OTHER -> "(no such file)"

defaultExtensions == <<"js", "jsx", "json">>

\* The directories from dir up to the root
RECURSIVE Ancestors(_)
Ancestors(dir) ==
    IF Len(dir) <= 1 THEN <<dir>> ELSE <<dir>> \o Ancestors(dirname(dir))

\* The first element of a sequence of paths that is a file, NoPath if none is
RECURSIVE FirstFile(_, _)
FirstFile(S, candidates) ==
    IF candidates = <<>> THEN NoPath
    ELSE IF isFile(S, Head(candidates)) THEN Head(candidates)
    ELSE FirstFile(S, Tail(candidates))

\* x as a file, x with each extension, x as a directory with an index file
FileOrDirectoryCandidates(x) ==
    IF Len(x) <= 1 THEN <<>>
    ELSE <<x>>
         \o [i \in 1..Len(defaultExtensions) |-> Front(x) \o <<AddExt(Last(x), defaultExtensions[i])>>]
         \o [i \in 1..Len(defaultExtensions) |-> x \o <<AddExt("index", defaultExtensions[i])>>]

\* The browser field in force for a file: that of the nearest package.json
RECURSIVE NearestPackageJson(_, _)
NearestPackageJson(S, dirs) ==
    IF dirs = <<>> THEN NoPath
    ELSE IF Has(S.transpiledModules, join(Head(dirs), <<"package.json">>))
         THEN join(Head(dirs), <<"package.json">>)
    ELSE NearestPackageJson(S, Tail(dirs))

browserFieldDisables(S, request, currentPath) ==
    LET pkg == NearestPackageJson(S, Ancestors(dirname(currentPath)))
    IN  /\ pkg # NoPath
        /\ S.transpiledModules[pkg].module.code = PackageJsonCode
        /\ request = ReqWs

RECURSIVE NodeModulesLookup(_, _, _)
NodeModulesLookup(S, request, dirs) ==
    IF dirs = <<>> THEN NoPath
    ELSE LET d == Head(dirs)
             hit == IF Last(d) = "node_modules" THEN NoPath
                    ELSE FirstFile(S, FileOrDirectoryCandidates(join(d, <<"node_modules">> \o request)))
         IN  IF hit # NoPath THEN hit ELSE NodeModulesLookup(S, request, Tail(dirs))

\* browser-resolve (resolve.sync and resolve): the path found, NoPath when
\* the lookup fails
nodeResolve(S, request, currentPath) ==
    IF browserFieldDisables(S, request, currentPath) THEN EmptySentinel
    ELSE IF isDependencyRequest(request)
         THEN NodeModulesLookup(S, request, Ancestors(dirname(currentPath)))
    ELSE FirstFile(S, FileOrDirectoryCandidates(
             IF IsAbsolute(request) THEN join(request, <<>>) ELSE join(dirname(currentPath), request)))

\* The files of the host that the file resolver answers for, and their code
HostFiles == {<<"", "dep.jsx">>}

HostCode == "host code"

UndefinedCode == "undefined"

\* fileResolver.readFile(p): what the protocol answers
readFile(p) == IF p \in HostFiles THEN HostCode ELSE UndefinedCode

\* isFile(p, cb) over the candidates of a lookup, in their order: the first
\* that is a file, and the requests sent to the file resolver on the way. A
\* path that returnValue lacks is asked of the file resolver when there is one
RECURSIVE isFileWithCallback(_, _)
isFileWithCallback(S, candidates) ==
    IF candidates = <<>> THEN [path |-> NoPath, requests |-> {}]
    ELSE IF isFile(S, Head(candidates)) THEN [path |-> Head(candidates), requests |-> {}]
    ELSE IF ~S.fileResolver THEN isFileWithCallback(S, Tail(candidates))
    ELSE IF Head(candidates) \in HostFiles
         THEN [path |-> Head(candidates), requests |-> {<<"isFile", Head(candidates)>>}]
    ELSE [path |-> isFileWithCallback(S, Tail(candidates)).path,
          requests |-> isFileWithCallback(S, Tail(candidates)).requests \cup {<<"isFile", Head(candidates)>>}]

\* The candidates of a dependency request, from the nearest node_modules up
RECURSIVE NodeModulesCandidates(_, _)
NodeModulesCandidates(request, dirs) ==
    IF dirs = <<>> THEN <<>>
    ELSE (IF Last(Head(dirs)) = "node_modules" THEN <<>>
          ELSE FileOrDirectoryCandidates(join(Head(dirs), <<"node_modules">> \o request)))
         \o NodeModulesCandidates(request, Tail(dirs))

\* browser-resolve with callbacks (resolve): the path found, NoPath when the
\* lookup fails, and the requests sent to the file resolver
nodeResolveAsync(S, request, currentPath) ==
    IF browserFieldDisables(S, request, currentPath) THEN [path |-> EmptySentinel, requests |-> {}]
    ELSE IF isDependencyRequest(request)
         THEN isFileWithCallback(S, NodeModulesCandidates(request, Ancestors(dirname(currentPath))))
    ELSE isFileWithCallback(S, FileOrDirectoryCandidates(
             IF IsAbsolute(request) THEN join(request, <<>>) ELSE join(dirname(currentPath), request)))

\* readFileSync(p, cb) for a path the store lacks: the file resolver is asked
\* and its answer added to the store; without one the callback gets the error
readFileSyncWithCallback(S, p) ==
    IF S.fileResolver
    THEN [S |-> addModule(S, Module(p, readFile(p))), requests |-> {<<"readFile", p>>}]
    ELSE [S |-> S, requests |-> {}]

\* manifest.dependencies.find(d => d.name === name) || manifest.dependencyDependencies[name]
manifestKnows(S, name) ==
    \/ \E i \in 1..Len(S.manifest.dependencies) : S.manifest.dependencies[i].name = name
    \/ name \in S.manifest.dependencyDependencies

\* The request as it came
notAliased(S, path, currentPath) == path

getAliasedDependencyPath(S, path, currentPath) ==
    IF ~isDependencyRequest(path) THEN path
    ELSE IF ~startsWithNodeModules(currentPath) THEN path
    ELSE LET dependencyName == getDependencyName(path)
             previousDependencyName == getDependencyName(removeNodeModules(currentPath))
             aliases == S.manifest.dependencyAliases
         IN  IF Has(aliases, previousDependencyName) /\ Has(aliases[previousDependencyName], dependencyName)
             THEN aliases[previousDependencyName][dependencyName] \o SubSeq(path, Len(dependencyName) + 1, Len(path))
             ELSE path

\* What one call of the resolver gives back
Resolved(module, hit) ==
    [ok |-> TRUE, module |-> module, error |-> "none", isDependency |-> FALSE, path |-> NoPath, cacheHit |-> hit]

Failed(error, path, isDep) ==
    [ok |-> FALSE, module |-> NoModule, error |-> error, isDependency |-> isDep, path |-> path, cacheHit |-> FALSE]

\* The catch block with every request joined to the directory of currentPath
resolveErrorJoinedToDirectory(S, shimmedPath, currentPath) ==
    LET joined == IF ~startsWithNodeModules(shimmedPath)
                  THEN join(dirname(currentPath), shimmedPath)
                  ELSE shimmedPath
        connectedPath == removeNodeModules(joined)
    IN  IF ~includesNodeModules(joined) THEN Failed("ModuleNotFoundError", shimmedPath, FALSE)
        ELSE IF manifestKnows(S, getDependencyName(connectedPath)) THEN Failed("ModuleNotFoundError", connectedPath, TRUE)
        ELSE Failed("DependencyNotFoundError", connectedPath, FALSE)

\* The catch block of resolveModule and of resolveModuleAsync: the error that
\* is thrown for a request rewritten to shimmedPath
resolveError(S, shimmedPath, currentPath) ==
    LET joined == IF ~startsWithNodeModules(shimmedPath)
                  THEN IF isDependencyRequest(shimmedPath)
                       THEN join(<<"", "node_modules">>, shimmedPath)
                       ELSE join(dirname(currentPath), shimmedPath)
                  ELSE shimmedPath
        isDependency == includesNodeModules(joined)
        connectedPath == removeNodeModules(joined)
        dependencyName == getDependencyName(connectedPath)
    IN  IF ~isDependency THEN Failed("ModuleNotFoundError", shimmedPath, FALSE)
        ELSE IF manifestKnows(S, dependencyName) THEN Failed("ModuleNotFoundError", connectedPath, TRUE)
        ELSE Failed("DependencyNotFoundError", connectedPath, FALSE)

\* cachedPaths[dirredPath] === undefined  =>  cachedPaths[dirredPath] = {}
withCacheDirectory(S, dirredPath) ==
    IF Has(S.cachedPaths, dirredPath) THEN S
    ELSE [S EXCEPT !.cachedPaths = Put(@, dirredPath, EmptyMap)]

writeCache(S, dirredPath, path, value) ==
    [S EXCEPT !.cachedPaths = Put(@, dirredPath, Put(S.cachedPaths[dirredPath], path, value))]

\* delete cachedPaths[dirredPath][path], if there
purgeCache(S, dirredPath, path) ==
    IF Has(S.cachedPaths, dirredPath) /\ Has(S.cachedPaths[dirredPath], path)
    THEN [S EXCEPT !.cachedPaths = Put(@, dirredPath, Del(S.cachedPaths[dirredPath], path))]
    ELSE S

\* The request after preset aliasing, dependency aliasing and the core-library table
shimmedPathOf(S, path, currentPath) ==
    coreLibraries(getAliasedDependencyPath(S, getPresetAliasedPath(path), currentPath))

\* The condition under which resolveModule answers from the cache
syncCacheHit(S, cachedPath) == Has(S.transpiledModules, cachedPath)

\* resolveModule(path, currentPath): the new state and the outcome
resolveModule(S, path, currentPath) ==
    LET dirredPath == dirname(currentPath)
        S1 == withCacheDirectory(S, dirredPath)
        cached == Has(S1.cachedPaths[dirredPath], path)
        cachedPath == IF cached THEN S1.cachedPaths[dirredPath][path] ELSE NoPath
        shimmedPath == shimmedPathOf(S1, path, currentPath)
        resolvedPath == nodeResolve(S1, shimmedPath, currentPath)
    IN  IF cached /\ syncCacheHit(S1, cachedPath)
        THEN [S |-> S1, out |-> Resolved(S1.transpiledModules[cachedPath].module, TRUE)]
        ELSE IF shimmedPath \in NODE_LIBS
        THEN [S |-> writeCache(S1, dirredPath, path, shimmedPath),
              out |-> Resolved(getShimmedModuleFromPath(currentPath, path), FALSE)]
        ELSE IF resolvedPath = NoPath
        THEN [S |-> purgeCache(S1, dirredPath, path), out |-> resolveError(S1, shimmedPath, currentPath)]
        ELSE IF resolvedPath = EmptySentinel
        THEN [S |-> writeCache(S1, dirredPath, path, resolvedPath),
              out |-> Resolved(getShimmedModuleFromPath(currentPath, path), FALSE)]
        ELSE IF ~Has(S1.transpiledModules, resolvedPath)
        THEN [S |-> purgeCache(writeCache(S1, dirredPath, path, resolvedPath), dirredPath, path),
              out |-> resolveError(S1, shimmedPath, currentPath)]
        ELSE [S |-> writeCache(S1, dirredPath, path, resolvedPath),
              out |-> Resolved(S1.transpiledModules[resolvedPath].module, FALSE)]

\* resolveModuleAsync(path, currentPath), where the resolver and the file
\* resolver call back before another operation runs: the new state, what the
\* callback of resolve() hands the promise, and the requests sent to the file
\* resolver
resolveModuleAsyncFound(S1, path, currentPath, dirredPath, shimmedPath, found) ==
    IF shimmedPath \in NODE_LIBS
    THEN [S |-> writeCache(S1, dirredPath, path, shimmedPath),
          out |-> Resolved(getShimmedModuleFromPath(currentPath, path), FALSE), requests |-> {}]
    ELSE IF found.path = NoPath
    THEN [S |-> purgeCache(S1, dirredPath, path), out |-> resolveError(S1, shimmedPath, currentPath),
          requests |-> found.requests]
    ELSE IF found.path = EmptySentinel
    THEN [S |-> writeCache(S1, dirredPath, path, found.path),
          out |-> Resolved(getShimmedModuleFromPath(currentPath, path), FALSE), requests |-> found.requests]
    ELSE IF ~Has(S1.transpiledModules, found.path)
    THEN LET read == readFileSyncWithCallback(writeCache(S1, dirredPath, path, found.path), found.path)
             S2 == addModule(read.S, Module(found.path, IF S1.fileResolver THEN readFile(found.path) ELSE EnoentCode))
         IN  [S |-> S2, out |-> Resolved(S2.transpiledModules[found.path].module, FALSE),
              requests |-> found.requests \cup read.requests]
    ELSE [S |-> writeCache(S1, dirredPath, path, found.path),
          out |-> Resolved(S1.transpiledModules[found.path].module, FALSE), requests |-> found.requests]

\* The promise of a resolution r (promiseResolve and the executor's throw;
\* the first of them settles it). When isFile or readFileSync waits for the
\* file resolver, resolve() returns before its callback runs and the executor
\* goes on to promiseResolve(this.transpiledModules[resolvedPath].module) with
\* resolvedPath undefined: the TypeError rejects the promise, and what the
\* callback does later no longer settles it
settlesFirst(r) ==
    IF r.requests # {} THEN [r EXCEPT !.out = Failed("TypeError", NoPath, FALSE)] ELSE r

resolveModuleAsyncCached(S1, path, currentPath, dirredPath) ==
    IF Has(S1.cachedPaths[dirredPath], path)
    THEN IF Has(S1.transpiledModules, S1.cachedPaths[dirredPath][path])
         THEN [S |-> S1, out |-> Resolved(S1.transpiledModules[S1.cachedPaths[dirredPath][path]].module, TRUE),
               requests |-> {}]
         ELSE [S |-> S1, out |-> Failed("TypeError", S1.cachedPaths[dirredPath][path], FALSE), requests |-> {}]
    ELSE settlesFirst(resolveModuleAsyncFound(S1, path, currentPath, dirredPath, shimmedPathOf(S1, path, currentPath),
                                              nodeResolveAsync(S1, shimmedPathOf(S1, path, currentPath), currentPath)))

resolveModuleAsync(S, path, currentPath) ==
    resolveModuleAsyncCached(withCacheDirectory(S, dirname(currentPath)), path, currentPath, dirname(currentPath))

\* The transpiled module of a resolution r for a loader query: the new state,
\* the outcome of the resolution and the hash of the module found
transpiledModuleOf(r, query) ==
    IF r.out.ok
    THEN [S |-> getTranspiledModule(r.S, r.out.module, query), out |-> r.out,
          hash |-> getTranspiledModuleHash(r.S, r.out.module, query)]
    ELSE [S |-> r.S, out |-> r.out, hash |-> Hash(NoPath, query)]

\* splitQueryFromPath: a request of the model carries its loader query beside it
\* resolveTranspiledModule(path, currentPath) with the query of the request
resolveTranspiledModule(S, query, path, currentPath) ==
    transpiledModuleOf(resolveModule(S, path, currentPath), query)

-----------------------------------------------------------------------------
(* Transpilation of one module *)

shouldTranspileTModule(S, h) == ~S.transpiledModulesByHash[h].source

addDependencyEdge(S, from, to) ==
    [S EXCEPT !.transpiledModulesByHash =
        [x \in DOMAIN S.transpiledModulesByHash |->
            LET t0 == S.transpiledModulesByHash[x]
                t1 == IF x = from THEN [t0 EXCEPT !.dependencies = @ \cup {to}] ELSE t0
            IN  IF x = to THEN [t1 EXCEPT !.initiators = @ \cup {from}] ELSE t1]]

\* The runtime dependencies a transpiler declares are resolved in order through
\* resolveTranspiledModule; the first that fails stops the transpilation.
RECURSIVE resolveDependencies(_, _, _)
RECURSIVE dependencyResolved(_, _, _)
resolveDependencies(S, h, requests) ==
    IF requests = <<>> THEN [S |-> S, error |-> "none"]
    ELSE dependencyResolved(
             resolveTranspiledModule(S, "", Head(requests), S.transpiledModulesByHash[h].module.path),
             h, Tail(requests))

\* The dependency r is recorded and the remaining requests are resolved
dependencyResolved(r, h, requests) ==
    IF r.out.ok
    THEN resolveDependencies(addDependencyEdge(r.S, h, r.hash), h, requests)
    ELSE [S |-> r.S, error |-> r.out.error]

\* The start of tModule.transpile: earlier errors are forgotten
transpileStarted(S, h) ==
    [S EXCEPT !.transpiledModulesByHash[h].hasMissingDependencies = FALSE,
              !.transpiledModulesByHash[h].errors = FALSE]

\* The end of tModule.transpile: the source is set, or the error is recorded
transpileEnded(r, h) ==
    IF r.error = "none"
    THEN [S |-> [r.S EXCEPT !.transpiledModulesByHash[h].source = TRUE], ok |-> TRUE]
    ELSE [S |-> [r.S EXCEPT !.transpiledModulesByHash[h].errors = TRUE,
                            !.transpiledModulesByHash[h].hasMissingDependencies = (r.error = "DependencyNotFoundError")],
          ok |-> FALSE]

\* tModule.transpile(manager) for one module: the new state and whether it succeeded
transpileTModule(S, h) ==
    transpileEnded(resolveDependencies(transpileStarted(S, h), h, RequiresOf(S.transpiledModulesByHash[h].module.code)), h)

-----------------------------------------------------------------------------
(* Manifest and configurations *)

\* shouldTranspile(code, path) of the babel check: the code uses module syntax
shouldTranspile(code, path) == code = "export default lib"

SKIPPED_BROWSER_FIELD_DEPENDENCIES == {<<"", "node_modules", "babel-core", "package.json">>, <<"", "node_modules", "@babel", "core", "package.json">>}

\* JSON.stringify of the package.json without its browser field
withoutBrowserField(code) == IF code = PackageJsonCode THEN "{}" ELSE code

RECURSIVE addModules(_, _)
addModules(S, ms) ==
    IF ms = {} THEN S
    ELSE LET m == CHOOSE x \in ms : TRUE
         IN  addModules(addModule(S, m), ms \ {m})

manifestModule(M, path) ==
    LET code == IF path \in SKIPPED_BROWSER_FIELD_DEPENDENCIES
                THEN withoutBrowserField(M.contents[path].content)
                ELSE M.contents[path].content
    IN  [path |-> path, code |-> code, requires |-> ~shouldTranspile(code, path), downloaded |-> FALSE, parent |-> FALSE]

setManifest(S, M) ==
    addModules([S EXCEPT !.manifest = M], {manifestModule(M, p) : p \in DOMAIN M.contents})

RECURSIVE resetTModules(_, _)
resetTModules(S, hs) ==
    IF hs = {} THEN S
    ELSE LET h == CHOOSE x \in hs : TRUE
         IN  resetTModules(resetTranspilation(S, h), hs \ {h})

\* tModule.resetCompilation() of every transpiled module
resetCompilations(S) ==
    [S EXCEPT !.transpiledModulesByHash =
        [h \in DOMAIN S.transpiledModulesByHash |-> [S.transpiledModulesByHash[h] EXCEPT !.compilation = FALSE]]]

resetAllModules(S) == resetCompilations(resetTModules(S, getTranspiledModules(S)))

\* JSON.stringify(configurations): the configuration files in the order of
\* the keys, each with its content
JSONstringify(conf) ==
    [i \in 1..Len(conf.keys) |->
        <<conf.keys[i],
          IF conf.keys[i] = "sandbox"
          THEN (IF conf.hardReloadOnChange THEN "{hardReloadOnChange:true}" ELSE "{hardReloadOnChange:false}")
          ELSE "{}">>]

\* The bundles compared as values, whatever the order of their keys
deepDiffers(conf, stored) ==
    {JSONstringify(conf)[i] : i \in 1..Len(conf.keys)} # {JSONstringify(stored)[i] : i \in 1..Len(stored.keys)}

configsUpdated(conf, stored) == JSONstringify(conf) # JSONstringify(stored)

updateConfigurations(S, conf) ==
    LET S1 == IF configsUpdated(conf, S.configurations) THEN resetAllModules(S) ELSE S
    IN  [S1 EXCEPT !.configurations = conf]

-----------------------------------------------------------------------------
(* updateData *)

RECURSIVE removeModules(_, _)
removeModules(S, ms) ==
    IF ms = {} THEN S
    ELSE LET m == CHOOSE x \in ms : TRUE
         IN  removeModules(removeModule(S, m), ms \ {m})

RECURSIVE addTranspiledModules(_, _)
addTranspiledModules(S, ms) ==
    IF ms = {} THEN S
    ELSE LET m == CHOOSE x \in ms : TRUE
         IN  addTranspiledModules(addTranspiledModule(S, m, ""), ms \ {m})

RECURSIVE updateModules(_, _)
updateModules(S, ms) ==
    IF ms = {} THEN S
    ELSE LET m == CHOOSE x \in ms : TRUE
         IN  updateModules(updateModule(S, m), ms \ {m})

\* The filter of updateData with `m.parent` for `!m.parent`
deletedModulesOnlyChildren(S, M) ==
    {m \in getModules(S) :
        /\ ~startsWithNodeModules(m.path)
        /\ m.path # BrowserResolveEmptyPath
        /\ ~Has(M, m.path)
        /\ m.parent}

\* The modules of the store that updateData deletes
deletedModules(S, M) ==
    {m \in getModules(S) :
        /\ ~startsWithNodeModules(m.path)
        /\ m.path # BrowserResolveEmptyPath
        /\ ~Has(M, m.path)
        /\ ~m.parent}

\* What updateData hands to its await: the new state, the transpiled modules
\* whose transpilation it starts, those it answers with a resolved `false`,
\* and what the diff found
updateDataJobs(S8, transpiledModulesToUpdate, added, updated, deleted) ==
    [S |-> S8,
     transpile |-> {h \in transpiledModulesToUpdate : shouldTranspileTModule(S8, h)},
     skipped |-> {h \in transpiledModulesToUpdate : ~shouldTranspileTModule(S8, h)},
     added |-> {m.path : m \in added},
     updated |-> {m.path : m \in updated},
     deleted |-> {m.path : m \in deleted}]

\* The modules with errors join those to update and the test files are
\* transpiled with the others
updateDataErrorsWithTestFiles(S7, tModulesToUpdate, added, updated, deleted) ==
    updateDataJobs(S7,
                   tModulesToUpdate \cup {h \in getTranspiledModules(S7) :
                                             S7.transpiledModulesByHash[h].errors \/ S7.transpiledModulesByHash[h].hasMissingDependencies},
                   added, updated, deleted)

\* updateData: the modules with errors join those to update; test files are
\* reset and left out
updateDataErrors(S7, tModulesToUpdate, added, updated, deleted) ==
    LET modulesWithWErrors == {h \in getTranspiledModules(S7) :
                                  S7.transpiledModulesByHash[h].errors \/ S7.transpiledModulesByHash[h].hasMissingDependencies}
        allModulesToUpdate == tModulesToUpdate \cup modulesWithWErrors
        testFiles == {h \in allModulesToUpdate : S7.transpiledModulesByHash[h].isTestFile}
    IN  updateDataJobs(resetTModules(S7, testFiles), allModulesToUpdate \ testFiles, added, updated, deleted)

\* The flag is left as it is
hardReloadKept(S, modulesToUpdate) == S

\* if (tModulesToUpdate.length > 0 && this.configurations.sandbox)
\*   this.hardReload = this.configurations.sandbox.parsed.hardReloadOnChange
hardReloadOnChange(S, modulesToUpdate) ==
    IF modulesToUpdate # {} /\ S.configurations.hasSandbox
    THEN [S EXCEPT !.hardReload = S.configurations.hardReloadOnChange]
    ELSE S

\* updateData: the hard-reload flag is set and the modules flagged with
\* missing dependencies are reset
updateDataMissing(S5, added, updated, deleted) ==
    LET modulesToUpdate == added \cup updated
        S6 == hardReloadOnChange(S5, modulesToUpdate)
        missing == {h \in getTranspiledModules(S5) : S5.transpiledModulesByHash[h].hasMissingDependencies}
    IN  updateDataErrors(resetTModules(S6, missing),
                         UNION {getTranspiledModulesByModule(S5, m) : m \in modulesToUpdate},
                         added, updated, deleted)

\* updateData that leaves the Modules of the store as they were
updateDataStoreWithoutUpdate(S2, added, updated, deleted) ==
    updateDataMissing(addTranspiledModules(removeModules(S2, deleted), added), added, updated, deleted)

\* updateData: deleted modules are removed, added ones get a transpiled
\* module, added and updated ones are updated
updateDataStore(S2, added, updated, deleted) ==
    updateDataMissing(
        updateModules(addTranspiledModules(removeModules(S2, deleted), added), added \cup updated),
        added, updated, deleted)

\* updateData: the diff of the module map against the store; the cache is
\* cleared when a module was added or updated
updateDataDiff(S1, M, addedModules, updatedModules) ==
    IF addedModules \cup updatedModules # {}
    THEN updateDataStore(clearCachedPaths(S1), addedModules, updatedModules, deletedModules(S1, M))
    ELSE updateDataStore(S1, addedModules, updatedModules, deletedModules(S1, M))

\* The first statements of updateData without the reset of hardReload
updateDataResetKeepingReload(S, M) ==
    [S EXCEPT !.transpileJobs = {}, !.isFirstLoad = FALSE, !.modules = M]

\* this.transpileJobs = {}; this.hardReload = false; this.isFirstLoad = false;
\* this.modules = modules
updateDataReset(S, M) ==
    [S EXCEPT !.transpileJobs = {}, !.hardReload = FALSE, !.isFirstLoad = FALSE, !.modules = M]

\* updateData(modules) up to its await
updateDataSync(S, M) ==
    updateDataDiff(
        updateDataReset(S, M),
        M,
        {M[k] : k \in {k \in DOMAIN M : ~Has(S.transpiledModules, k)}},
        {M[k] : k \in {k \in DOMAIN M : Has(S.transpiledModules, k) /\ S.transpiledModules[k].module.code # M[k].code}})

-----------------------------------------------------------------------------
(* serialize and load *)

SCRIPT_VERSION == "script-version-current"

\* dependenciesToQuery(normalizedDependencies): the canonical encoding of the
\* name -> version map, in which a later entry of the list replaces an earlier one
getDependencyQuery(S) ==
    LET deps == S.manifest.dependencies
    IN  {<<deps[i].name, deps[i].version>> : i \in {i \in 1..Len(deps) : \A j \in (i + 1)..Len(deps) : deps[j].name # deps[i].name}}

endsWithJs(p) == Last(p) \in {"index.js", "dep.js", "empty.js"}

\* Only the modules outside the manifest are kept
isOutsideManifest(S, module) == ~Has(S.manifest.contents, module.path)

\* The test of serialize: the module is not precomputed
isSerialized(S, module) ==
    \/ ~Has(S.manifest.contents, module.path)
    \/ (endsWithJs(module.path) /\ ~module.requires)
    \/ module.downloaded

\* p.replace('/node_modules', '')
withoutNodeModulesPrefix(p) ==
    LET hits == {i \in 2..Len(p) : p[i] \in SegmentsWithNodeModulesPrefix}
        i == CHOOSE i \in hits : \A j \in hits : i <= j
    IN  IF hits = {} THEN p ELSE SubSeq(p, 1, i - 1) \o SubSeq(p, i + 1, Len(p))

metaOf(metas) ==
    LET dirOf(p) == dirname(withoutNodeModulesPrefix(p))
    IN  [dir \in {dirOf(p) : p \in metas} |-> {basename(p) : p \in {q \in metas : dirOf(q) = dir}}]

\* '/node_modules' + dir + '/' + file: the root directory is the string '/',
\* so a file of the root comes back behind two slashes
metaPath(dir, file) ==
    IF dir = <<"">> THEN <<"", "node_modules", "", file>>
    ELSE <<"", "node_modules">> \o Tail(dir) \o <<file>>

NoData ==
    [valid |-> FALSE, transpiledModules |-> EmptyMap, cachedPaths |-> EmptyMap, version |-> "",
     configurations |-> [hasSandbox |-> FALSE, hardReloadOnChange |-> FALSE, keys |-> <<>>],
     meta |-> EmptyMap, dependenciesQuery |-> {}]

serialize(S) ==
    LET kept == {h \in UNION {Values(S.transpiledModules[p].tModules) : p \in DOMAIN S.transpiledModules} :
                    isSerialized(S, S.transpiledModulesByHash[h].module)}
    IN  [valid |-> TRUE,
         transpiledModules |-> [h \in kept |-> S.transpiledModulesByHash[h]],
         cachedPaths |-> S.cachedPaths,
         version |-> SCRIPT_VERSION,
         configurations |-> S.configurations,
         meta |-> metaOf(S.combinedMetas),
         dependenciesQuery |-> getDependencyQuery(S)]

RECURSIVE instantiateTModules(_, _, _)
instantiateTModules(S, serialized, ids) ==
    IF ids = {} THEN S
    ELSE LET id == CHOOSE x \in ids : TRUE
         IN  instantiateTModules(addTranspiledModule(S, serialized[id].module, serialized[id].query), serialized, ids \ {id})

RECURSIVE getReferredTModules(_, _)
getReferredTModules(S, refs) ==
    IF refs = {} THEN S
    ELSE LET r == CHOOSE x \in refs : TRUE
         IN  getReferredTModules(getTranspiledModule(S, S.transpiledModules[r[1]].module, r[2]), refs \ {r})

\* The references of a serialized transpiled module to modules that neither
\* the record nor the store holds
brokenReferences(S, data, state) ==
    {r \in data.dependencies \cup data.initiators : r \notin state /\ ~Has(S.transpiledModules, r[1])}

\* tModule.load(data, state, manager): the fields are restored; each edge is
\* reconnected to the module of that id in state, or else to the one the store
\* gives for its path; a reference to a path the store lacks aborts the load
\* of this module
loadTModule(S, h, data, state) ==
    LET S1 == [S EXCEPT !.transpiledModulesByHash[h].source = data.source,
                        !.transpiledModulesByHash[h].isEntry = data.isEntry,
                        !.transpiledModulesByHash[h].isTestFile = data.isTestFile,
                        !.transpiledModulesByHash[h].hasMissingDependencies = data.hasMissingDependencies]
        outside == {r \in data.dependencies \cup data.initiators : r \notin state}
        S2 == getReferredTModules(S1, outside)
    IN  IF brokenReferences(S1, data, state) # {} THEN S1
        ELSE [S2 EXCEPT !.transpiledModulesByHash =
                [x \in DOMAIN S2.transpiledModulesByHash |->
                    LET t0 == S2.transpiledModulesByHash[x]
                        t1 == IF x = h THEN [t0 EXCEPT !.dependencies = @ \cup data.dependencies, !.initiators = @ \cup data.initiators] ELSE t0
                        t2 == IF x \in data.dependencies THEN [t1 EXCEPT !.initiators = @ \cup {h}] ELSE t1
                    IN  IF x \in data.initiators THEN [t2 EXCEPT !.dependencies = @ \cup {h}] ELSE t2]]

\* A broken reference in one serialized module ends the restoration of all
RECURSIVE loadTModulesAllOrNothing(_, _, _, _)
loadTModulesAllOrNothing(S, serialized, state, ids) ==
    IF ids = {} \/ \E id \in ids : brokenReferences(S, serialized[id], state) # {} THEN S
    ELSE LET id == CHOOSE x \in ids : TRUE
         IN  loadTModulesAllOrNothing(loadTModule(S, id, serialized[id], state), serialized, state, ids \ {id})

\* Object.keys(tModules).forEach(id => tModule.load(serializedTModules[id], tModules, this))
RECURSIVE loadTModules(_, _, _, _)
loadTModules(S, serialized, state, ids) ==
    IF ids = {} THEN S
    ELSE LET id == CHOOSE x \in ids : TRUE
         IN  loadTModules(loadTModule(S, id, serialized[id], state), serialized, state, ids \ {id})

\* The test of load with the compiler version alone
cacheMatchesVersion(S, data) == data.version = SCRIPT_VERSION

\* The test of load: the cache was written by this version for these dependencies
cacheMatches(S, data) ==
    data.version = SCRIPT_VERSION /\ data.dependenciesQuery = getDependencyQuery(S)

\* The metas and the configurations of the record are taken, the cache is not
restoreConfigurations(S, data) ==
    [S EXCEPT !.combinedMetas = UNION {{metaPath(dir, f) : f \in data.meta[dir]} : dir \in DOMAIN data.meta},
              !.configurations = data.configurations]

\* load: the metas, the resolution cache and the configurations of the record
\* replace those of the manager
restoreCaches(S, data) ==
    [S EXCEPT !.combinedMetas = UNION {{metaPath(dir, f) : f \in data.meta[dir]} : dir \in DOMAIN data.meta},
              !.cachedPaths = data.cachedPaths,
              !.configurations = data.configurations]

\* load(data); an error inside is caught and goes no further
load(S, data) ==
    IF ~data.valid \/ ~cacheMatches(S, data) THEN S
    ELSE loadTModules(instantiateTModules(restoreCaches(S, data), data.transpiledModules, DOMAIN data.transpiledModules),
                      data.transpiledModules, DOMAIN data.transpiledModules, DOMAIN data.transpiledModules)

-----------------------------------------------------------------------------
(* The inputs of the model *)

\* Module maps handed to the constructor and to updateData
ModuleMaps ==
    {(IndexPath :> Module(IndexPath, "v1")),
     (IndexPath :> Module(IndexPath, "v2")) @@ (DepPath :> Module(DepPath, "v1")),
     (IndexPath :> Module(IndexPath, "v2")) @@ (PackageJsonPath :> Module(PackageJsonPath, PackageJsonCode))}

\* The module maps without a package.json
PlainModuleMaps == {M \in ModuleMaps : ~Has(M, PackageJsonPath)}

\* Modules the file-system wrapper hands to removeModule, moveModule, updateModule
WrapperModules == {Module(IndexPath, "v1"), Module(DepPath, "v1"), Module(DepPath, "v2")}

\* Modules handed to addModule, addTranspiledModule, getTranspiledModule
NewModules == {Module(DepPath, "v2")}

EmptyManifest ==
    [contents |-> EmptyMap, dependencies |-> <<>>, dependencyDependencies |-> {}, dependencyAliases |-> EmptyMap]

\* react with its file
ReactManifest ==
    [contents |-> (ReactPath :> [content |-> LibCode, requires |-> <<>>]),
     dependencies |-> <<[name |-> ReqReact, version |-> "17.0.0"]>>,
     dependencyDependencies |-> {}, dependencyAliases |-> EmptyMap]

\* react listed at another version, its files not in the manifest
ListedManifest ==
    [contents |-> EmptyMap,
     dependencies |-> <<[name |-> ReqReact, version |-> "16.0.0"]>>,
     dependencyDependencies |-> {}, dependencyAliases |-> EmptyMap]

Manifests == {EmptyManifest, ReactManifest, ListedManifest}

\* The configuration bundle: keys is the order of its configuration files, as
\* JSON.stringify writes them. this.configurations = {}
NoConfigurations == [hasSandbox |-> FALSE, hardReloadOnChange |-> FALSE, keys |-> <<>>]

\* A bundle with sandbox.config.json, which asks for a hard reload on change
SandboxConfigurations == [hasSandbox |-> TRUE, hardReloadOnChange |-> TRUE, keys |-> <<"sandbox">>]

Configurations == {NoConfigurations, SandboxConfigurations}

\* Bundles with package.json beside sandbox.config.json, in both orders, and
\* with another content of sandbox.config.json
OrderedConfigurations ==
    {NoConfigurations,
     [hasSandbox |-> TRUE, hardReloadOnChange |-> TRUE, keys |-> <<"sandbox", "package">>],
     [hasSandbox |-> TRUE, hardReloadOnChange |-> TRUE, keys |-> <<"package", "sandbox">>],
     [hasSandbox |-> TRUE, hardReloadOnChange |-> FALSE, keys |-> <<"package", "sandbox">>]}

\* '/dep.js' as a request
ReqAbsoluteDep == <<"", "dep.js">>

\* (request, currentPath) pairs handed to the resolver
ResolveInputs ==
    {<<ReqDep, IndexPath>>, <<ReqAbsoluteDep, IndexPath>>, <<ReqFs, IndexPath>>, <<ReqReact, IndexPath>>,
     <<ReqWs, IndexPath>>, <<ReqSys, IndexPath>>, <<ReqDep, ReactPath>>}

\* The pairs handed to resolveTranspiledModule from outside a transpilation
TranspiledResolveInputs == {<<ReqFs, IndexPath>>, <<ReqDep, IndexPath>>}

\* A cache record written in an earlier session: /index.js requiring /dep.js
StoredCache ==
    LET index == NewTranspiledModule(Module(IndexPath, "v2"), "")
        dep == NewTranspiledModule(Module(DepPath, "v1"), "")
    IN  [valid |-> TRUE,
         transpiledModules |->
            (index.hash :> [index EXCEPT !.source = TRUE, !.dependencies = {dep.hash}])
            @@ (dep.hash :> [dep EXCEPT !.source = TRUE, !.initiators = {index.hash}]),
         cachedPaths |-> (<<"">> :> (ReqDep :> DepPath)),
         version |-> SCRIPT_VERSION,
         configurations |-> NoConfigurations,
         meta |-> EmptyMap,
         dependenciesQuery |-> {}]

OLD_SCRIPT_VERSION == "script-version-old"

\* A record in which /index.js also requires a file of react that neither the
\* record nor the store holds, beside /dep.js and a second variant of /index.js
BrokenCache ==
    LET index == NewTranspiledModule(Module(IndexPath, "v2"), "")
        raw == NewTranspiledModule(Module(IndexPath, "v2"), "raw-loader")
        dep == NewTranspiledModule(Module(DepPath, "v1"), "")
    IN  [StoredCache EXCEPT
            !.transpiledModules =
                (index.hash :> [index EXCEPT !.source = TRUE, !.dependencies = {dep.hash, Hash(ReactPath, "")}])
                @@ (raw.hash :> [raw EXCEPT !.source = TRUE, !.dependencies = {dep.hash}])
                @@ (dep.hash :> [dep EXCEPT !.source = TRUE, !.initiators = {index.hash, raw.hash}])]

-----------------------------------------------------------------------------
(* The state machine *)

Done == [ok |-> TRUE, module |-> NoModule, error |-> "none", isDependency |-> FALSE, path |-> NoPath, cacheHit |-> FALSE]

\* No operation is awaited.  running holds the transpilation jobs in flight, as
\* pairs of the hash of the transpiled module and the number of the job;
\* superseded the hashes whose job was in flight when updateData emptied
\* transpileJobs
Idle ==
    [op |-> "idle", todo |-> {}, done |-> {}, skipped |-> {}, failed |-> FALSE, changed |-> FALSE, cacheBefore |-> EmptyMap,
     running |-> {}, superseded |-> {}]

\* What an updateData call found: the transpiled modules whose transpilation
\* it started, those of the modules it added or updated, and those that were
\* flagged with missing dependencies, carried errors or were test files at the call
NoDiff == [started |-> {}, variants |-> {}, flagged |-> {}, erroneous |-> {}, tests |-> {}]

\* The record of an operation that returned: its name, its arguments, its
\* outcome, and whether it repeats the operation before it (prev is then that
\* operation's outcome)
Returned(op, path, from, out) ==
    LET repeat == last.op = op /\ last.path = path /\ last.from = from
    IN  [op |-> op, path |-> path, from |-> from, out |-> out,
         repeat |-> repeat, prev |-> IF repeat THEN last.out ELSE Done,
         changed |-> FALSE, cacheBefore |-> EmptyMap, transpiled |-> {}, skipped |-> {},
         valid |-> FALSE, version |-> "", query |-> {},
         loader |-> "", hash |-> Hash(NoPath, ""), requests |-> {},
         evaluated |-> <<>>, postEvaluated |-> <<>>, reloaded |-> FALSE,
         parsed |-> NoConfigurations, stored |-> NoConfigurations, compiled |-> {},
         status |-> "", removed |-> {}, modified |-> FALSE, pending |-> FALSE, diff |-> NoDiff,
         record |-> NoData]

Constructed ==
    [op |-> "constructor", path |-> NoPath, from |-> NoPath, out |-> Done, repeat |-> FALSE, prev |-> Done,
     changed |-> FALSE, cacheBefore |-> EmptyMap, transpiled |-> {}, skipped |-> {},
     valid |-> FALSE, version |-> "", query |-> {},
     loader |-> "", hash |-> Hash(NoPath, ""), requests |-> {},
     evaluated |-> <<>>, postEvaluated |-> <<>>, reloaded |-> FALSE,
         parsed |-> NoConfigurations, stored |-> NoConfigurations, compiled |-> {},
         status |-> "", removed |-> {}, modified |-> FALSE, pending |-> FALSE, diff |-> NoDiff,
         record |-> NoData]

\* new Manager(id, preset, modules, options) followed by setManifest()
constructor(M) ==
    [transpiledModules |-> [p \in DOMAIN M |-> [module |-> M[p], tModules |-> EmptyMap]],
     transpiledModulesByHash |-> EmptyMap,
     cachedPaths |-> EmptyMap,
     manifest |-> EmptyManifest,
     configurations |-> NoConfigurations,
     stage |-> "transpilation",
     hardReload |-> FALSE,
     isFirstLoad |-> TRUE,
     hmrStatus |-> "idle",
     transpileJobs |-> {},
     modules |-> M,
     combinedMetas |-> {},
     fileResolver |-> FALSE,
     hmrStatusChangeListeners |-> <<>>,
     notified |-> <<>>]

Init ==
    \E M \in ModuleMaps :
        /\ transpiledModules = constructor(M).transpiledModules
        /\ transpiledModulesByHash = constructor(M).transpiledModulesByHash
        /\ cachedPaths = constructor(M).cachedPaths
        /\ manifest = constructor(M).manifest
        /\ configurations = constructor(M).configurations
        /\ stage = constructor(M).stage
        /\ hardReload = constructor(M).hardReload
        /\ isFirstLoad = constructor(M).isFirstLoad
        /\ hmrStatus = constructor(M).hmrStatus
        /\ transpileJobs = constructor(M).transpileJobs
        /\ modules = constructor(M).modules
        /\ combinedMetas = constructor(M).combinedMetas
        /\ fileResolver = constructor(M).fileResolver
        /\ hmrStatusChangeListeners = constructor(M).hmrStatusChangeListeners
        /\ notified = constructor(M).notified
        /\ call = Idle
        /\ saved = NoData
        /\ last = Constructed

\* The page is loaded again: a new manager is constructed; the cache record
\* the old one wrote is still in the browser's store
Construct(M) ==
    /\ call.op = "idle"
    /\ Becomes(constructor(M))
    /\ last' = Constructed
    /\ UNCHANGED <<call, saved>>

\* A synchronous handler: the state becomes S and the operation is recorded
Returns(S, op, path, from, out) ==
    /\ call.op = "idle"
    /\ Becomes(S)
    /\ last' = Returned(op, path, from, out)
    /\ UNCHANGED <<call, saved>>

TypeError == Failed("TypeError", NoPath, FALSE)

AddModule(m) == Returns(addModule(This, m), "addModule", m.path, NoPath, Done)

AddTranspiledModule(m, q) == Returns(addTranspiledModule(This, m, q), "addTranspiledModule", m.path, NoPath, Done)

GetTranspiledModule(m, q) == Returns(getTranspiledModule(This, m, q), "getTranspiledModule", m.path, NoPath, Done)

\* removeModule of a path the store lacks clears the cache and fails on the
\* missing entry
RemoveModule(m) ==
    IF Has(transpiledModules, m.path)
    THEN Returns(removeModule(This, m), "removeModule", m.path, NoPath, Done)
    ELSE Returns(clearCachedPaths(This), "removeModule", m.path, NoPath, TypeError)

MoveModule(m, newPath) ==
    IF Has(transpiledModules, m.path)
    THEN Returns(moveModule(This, m, newPath), "moveModule", m.path, newPath, Done)
    ELSE Returns(clearCachedPaths(This), "moveModule", m.path, newPath, TypeError)

UpdateModule(m) ==
    IF Has(transpiledModules, m.path)
    THEN Returns(updateModule(This, m), "updateModule", m.path, NoPath, Done)
    ELSE Returns(This, "updateModule", m.path, NoPath, TypeError)

SetManifest(M) == Returns(setManifest(This, M), "setManifest", NoPath, NoPath, Done)

UpdateConfigurations(c) ==
    /\ call.op = "idle"
    /\ Becomes(updateConfigurations(This, c))
    /\ last' = [Returned("updateConfigurations", NoPath, NoPath, Done) EXCEPT
                  !.parsed = c, !.stored = configurations,
                  !.compiled = {h \in DOMAIN transpiledModulesByHash : transpiledModulesByHash[h].compilation}]
    /\ UNCHANGED <<call, saved>>

SetStage(st) == Returns([This EXCEPT !.stage = st], "setStage", NoPath, NoPath, Done)

\* fetch-npm-module learns the files of react from the package's meta
FetchMeta == Returns([This EXCEPT !.combinedMetas = @ \cup {ReactPath}], "fetchMeta", NoPath, NoPath, Done)

\* Paths of package metas: two files of a package, a file of a package nested
\* in it, and a file directly under /node_modules
MetaPaths ==
    {ReactPath,
     <<"", "node_modules", "react", "package.json">>,
     <<"", "node_modules", "react", "node_modules", "object-assign", "index.js">>,
     <<"", "node_modules", "index.js">>}

\* setCombinedMetas of a download: the path p joins combinedMetas
FetchMetaOf(p) == Returns([This EXCEPT !.combinedMetas = @ \cup {p}], "fetchMeta", p, NoPath, Done)

\* A resolution r returns
ReturnsResolution(r, op, path, currentPath) == Returns(r.S, op, path, currentPath, r.out)

ResolveModule(path, currentPath) ==
    ReturnsResolution(resolveModule(This, path, currentPath), "resolveModule", path, currentPath)

\* A resolution r with callbacks returns
ReturnsAsyncResolution(r, op, path, currentPath) ==
    /\ call.op = "idle"
    /\ Becomes(r.S)
    /\ last' = [Returned(op, path, currentPath, r.out) EXCEPT !.requests = r.requests]
    /\ UNCHANGED <<call, saved>>

ResolveModuleAsync(path, currentPath) ==
    ReturnsAsyncResolution(resolveModuleAsync(This, path, currentPath), "resolveModuleAsync", path, currentPath)

\* setupFileResolver()
SetupFileResolver == Returns([This EXCEPT !.fileResolver = TRUE], "setupFileResolver", NoPath, NoPath, Done)

ResolveTranspiledModule(path, currentPath) ==
    ReturnsResolution(resolveTranspiledModule(This, "", path, currentPath), "resolveTranspiledModule", path, currentPath)

\* The listeners are called with the status in the order of their
\* registration
RECURSIVE listenersCalled(_, _)
listenersCalled(listeners, status) ==
    IF listeners = <<>> THEN <<>>
    ELSE <<<<Head(listeners), status>>>> \o listenersCalled(Tail(listeners), status)

\* The status is stored and nobody is told
statusStoredSilently(S, status) == [S EXCEPT !.hmrStatus = status]

\* setHmrStatus(status)
setHmrStatus(S, status) ==
    [S EXCEPT !.notified = @ \o listenersCalled(S.hmrStatusChangeListeners, status),
              !.hmrStatus = status]

\* transpileModules(entry) up to its await: the new state and the hash of the
\* transpiled module of the entry
transpileModulesSync(S, entry, isTestFile) ==
    [S |-> [getTranspiledModule(setHmrStatus(S, "check"), entry, "")
               EXCEPT !.transpiledModulesByHash[getTranspiledModuleHash(S, entry, "")].isEntry = TRUE,
                      !.transpiledModulesByHash[getTranspiledModuleHash(S, entry, "")].isTestFile = isTestFile],
     hash |-> getTranspiledModuleHash(S, entry, "")]

\* transpileModules(entry) arrives at its await on the transpilation r.hash
TranspileModulesAwaits(r) ==
    /\ call.op = "idle"
    /\ Becomes(r.S)
    /\ call' = [Idle EXCEPT !.op = "transpileModules",
                            !.todo = IF shouldTranspileTModule(r.S, r.hash) THEN {r.hash} ELSE {}]
    /\ last' = [Returned("transpileModules:await", NoPath, NoPath, Done) EXCEPT !.repeat = FALSE, !.prev = Done]
    /\ UNCHANGED saved

\* transpileModules(entry) for a module of the store
TranspileModules(p) ==
    /\ Has(transpiledModules, p)
    /\ TranspileModulesAwaits(transpileModulesSync(This, transpiledModules[p].module, FALSE))

\* transpileModules(entry, true) for a module of the store
TranspileTestFile(p) ==
    /\ Has(transpiledModules, p)
    /\ TranspileModulesAwaits(transpileModulesSync(This, transpiledModules[p].module, TRUE))

\* The promise of transpileModules settles
TranspileModulesReturn ==
    /\ call.op = "transpileModules"
    /\ call.todo = {}
    /\ call' = Idle
    /\ last' = [Returned("transpileModules", NoPath, NoPath, IF call.failed THEN Failed("TranspileError", NoPath, FALSE) ELSE Done)
                  EXCEPT !.repeat = FALSE, !.prev = Done, !.transpiled = call.done]
    /\ UNCHANGED <<transpiledModules, transpiledModulesByHash, cachedPaths, manifest, configurations, stage, hardReload, isFirstLoad, hmrStatus, transpileJobs, modules, combinedMetas, fileResolver, hmrStatusChangeListeners, notified, saved>>

\* updateData(modules) arrives at its await with the jobs r; modified is
\* whether a module was added or updated, pending the hardReload flag at the call
UpdateDataAwaits(r) ==
    /\ call.op = "idle"
    /\ Becomes([r.S EXCEPT !.transpileJobs = r.transpile])
    /\ call' = [op |-> "updateData", todo |-> r.transpile, done |-> {}, skipped |-> r.skipped, failed |-> FALSE,
                changed |-> (r.added \cup r.updated \cup r.deleted # {}), cacheBefore |-> cachedPaths,
                running |-> {}, superseded |-> {}]
    /\ last' = [Returned("updateData:await", NoPath, NoPath, Done) EXCEPT
                  !.repeat = FALSE, !.prev = Done,
                  !.modified = (r.added \cup r.updated # {}), !.pending = hardReload,
                  !.diff = [started |-> r.transpile,
                            variants |-> {h \in DOMAIN r.S.transpiledModulesByHash :
                                             r.S.transpiledModulesByHash[h].module.path \in r.added \cup r.updated},
                            flagged |-> {h \in DOMAIN transpiledModulesByHash : transpiledModulesByHash[h].hasMissingDependencies},
                            erroneous |-> {h \in DOMAIN transpiledModulesByHash : transpiledModulesByHash[h].errors},
                            tests |-> {h \in DOMAIN transpiledModulesByHash : transpiledModulesByHash[h].isTestFile}]]
    /\ UNCHANGED saved

\* updateData(modules) up to its await
UpdateData(M) == UpdateDataAwaits(updateDataSync(This, M))

\* The transpilation of h ended as r; the dependencies it found untranspiled
\* are transpiled with it
Transpiled(h, r, more) ==
    /\ Becomes([r.S EXCEPT !.transpileJobs = (@ \ {h}) \cup (IF r.ok THEN more ELSE {})])
    /\ call' = [call EXCEPT !.todo = (@ \ {h}) \cup (IF r.ok THEN more ELSE {}),
                            !.done = IF r.ok THEN @ \cup {h} ELSE @,
                            !.failed = @ \/ ~r.ok]
    /\ last' = [last EXCEPT !.op = "transpiling"]
    /\ UNCHANGED saved

\* The untranspiled dependencies of h after its transpilation r
untranspiledDependencies(h, r) ==
    {d \in r.S.transpiledModulesByHash[h].dependencies : shouldTranspileTModule(r.S, d) /\ d \notin call.done}

TranspileEnds(h, r) == Transpiled(h, r, untranspiledDependencies(h, r))

\* One of the transpilations that updateData or transpileModules awaits runs
TranspileStep(h) ==
    /\ call.op \in {"updateData", "transpileModules"}
    /\ h \in call.todo
    /\ TranspileEnds(h, transpileTModule(This, h))

\* The promise of updateData settles
UpdateDataReturn ==
    /\ call.op = "updateData"
    /\ call.todo = {}
    /\ call' = Idle
    /\ last' = [Returned("updateData", NoPath, NoPath, IF call.failed THEN Failed("TranspileError", NoPath, FALSE) ELSE Done)
                  EXCEPT !.repeat = FALSE, !.prev = Done, !.changed = call.changed, !.cacheBefore = call.cacheBefore,
                         !.transpiled = call.done, !.skipped = call.skipped,
                         !.modified = last.modified, !.pending = last.pending, !.diff = last.diff]
    /\ UNCHANGED <<transpiledModules, transpiledModulesByHash, cachedPaths, manifest, configurations, stage, hardReload, isFirstLoad, hmrStatus, transpileJobs, modules, combinedMetas, fileResolver, hmrStatusChangeListeners, notified, saved>>

Serialize ==
    /\ call.op = "idle"
    /\ saved' = serialize(This)
    /\ last' = Returned("serialize", NoPath, NoPath, Done)
    /\ UNCHANGED <<transpiledModules, transpiledModulesByHash, cachedPaths, manifest, configurations, stage, hardReload, isFirstLoad, hmrStatus, transpileJobs, modules, combinedMetas, fileResolver, hmrStatusChangeListeners, notified, call>>

\* The records handed to load: what serialize returned, the same written by
\* another version of the compiler, and no record
LoadInputs == {saved, [saved EXCEPT !.version = OLD_SCRIPT_VERSION], NoData}

\* The records of an earlier session
StoredCaches == {StoredCache, [StoredCache EXCEPT !.version = OLD_SCRIPT_VERSION]}

Load(data) ==
    /\ call.op = "idle"
    /\ Becomes(load(This, data))
    /\ last' = [Returned("load", NoPath, NoPath, Done) EXCEPT
                  !.repeat = FALSE, !.prev = Done,
                  !.valid = data.valid, !.version = data.version, !.query = data.dependenciesQuery,
                  !.record = data]
    /\ UNCHANGED <<call, saved>>

-----------------------------------------------------------------------------
(* Dependency aliasing: a manifest with two versions of react *)

ReduxPath == <<"", "node_modules", "redux", "index.js">>

React17Path == <<"", "node_modules", "react", "17.0.0", "index.js">>

ReqLodash == <<"lodash">>

\* 'react/index.js': a path below the package
ReqReactIndex == <<"react", "index.js">>

\* redux requires react 17, which the packager put under react/17.0.0
AliasManifest ==
    [contents |-> (ReactPath :> [content |-> LibCode, requires |-> <<>>])
                  @@ (React17Path :> [content |-> LibCode, requires |-> <<>>])
                  @@ (ReduxPath :> [content |-> LibCode, requires |-> <<>>]),
     dependencies |-> <<[name |-> ReqReact, version |-> "16.0.0"], [name |-> <<"redux">>, version |-> "4.0.0"]>>,
     dependencyDependencies |-> {},
     dependencyAliases |-> (<<"redux">> :> (ReqReact :> <<"react", "17.0.0">>))]

\* (request, currentPath) pairs: a bare name and a path below it from the
\* aliasing package, from a package without aliases, from the sandbox; a
\* relative request and a name without an alias from the aliasing package
AliasInputs ==
    {<<ReqReact, ReduxPath>>, <<ReqReactIndex, ReduxPath>>, <<ReqReact, ReactPath>>, <<ReqReact, IndexPath>>,
     <<ReqDep, ReduxPath>>, <<ReqLodash, ReduxPath>>}

-----------------------------------------------------------------------------
(* resolveTranspiledModuleAsync and downloadDependency *)

\* The files of the packages the npm registry serves
NpmFiles == {ReactPath}

\* A file fetched from npm
DownloadedModule(path) ==
    [path |-> path, code |-> LibCode, requires |-> FALSE, downloaded |-> TRUE, parent |-> FALSE]

\* The first of the candidate paths that npm serves, NoPath if none
RECURSIVE FirstNpmFile(_)
FirstNpmFile(candidates) ==
    IF candidates = <<>> THEN NoPath
    ELSE IF Head(candidates) \in NpmFiles THEN Head(candidates)
    ELSE FirstNpmFile(Tail(candidates))

\* The module fetchModule found for the path and added to the store
fetchedModule(S, found) ==
    [S |-> addModule([S EXCEPT !.combinedMetas = @ \cup {found}], DownloadedModule(found)),
     ok |-> TRUE,
     module |-> addModule(S, DownloadedModule(found)).transpiledModules[found].module]

\* fetchModule(path, currentTModule, manager): the file of the package is
\* looked up in what npm serves, added to the store and returned
fetchModule(S, path) ==
    IF FirstNpmFile(FileOrDirectoryCandidates(<<"", "node_modules">> \o path)) = NoPath
    THEN [S |-> S, ok |-> FALSE, module |-> NoModule]
    ELSE fetchedModule(S, FirstNpmFile(FileOrDirectoryCandidates(<<"", "node_modules">> \o path)))

\* .then(module => this.getTranspiledModule(module, query))
fetchedTranspiledModule(f, query) ==
    IF f.ok
    THEN [S |-> getTranspiledModule(f.S, f.module, query), out |-> Resolved(f.module, FALSE),
          hash |-> getTranspiledModuleHash(f.S, f.module, query)]
    ELSE [S |-> f.S, out |-> Failed("FetchError", NoPath, FALSE), hash |-> Hash(NoPath, query)]

\* The transpiled module of the default query
downloadDependencyOfDefaultQuery(S, path, query) == fetchedTranspiledModule(fetchModule(S, path), "")

downloadDependency(S, path, query) == fetchedTranspiledModule(fetchModule(S, path), query)

\* The test for the error of a package the manifest does not know
isDependencyNotFound(e) == e.error = "DependencyNotFoundError"

\* e.type === 'module-not-found' && e.isDependency
isMissingDependencyModule(e) == e.error = "ModuleNotFoundError" /\ e.isDependency

\* The promise of resolveTranspiledModuleAsync settles with r
ResolveTranspiledModuleAsyncReturns(r, op, path, currentPath, query) ==
    /\ Becomes(r.S)
    /\ call' = Idle
    /\ last' = [Returned(op, path, currentPath, r.out) EXCEPT
                  !.repeat = FALSE, !.prev = Done, !.loader = query, !.hash = r.hash]
    /\ UNCHANGED saved

\* The resolution failed with e: downloadDependency is called and awaited
DownloadDependencyAwaits(r, path, currentPath, query) ==
    /\ Becomes(r.S)
    /\ call' = [Idle EXCEPT !.op = "downloadDependency"]
    /\ last' = [Returned("resolveTranspiledModuleAsync:await", path, currentPath, r.out) EXCEPT
                  !.repeat = FALSE, !.prev = Done, !.loader = query]
    /\ UNCHANGED saved

\* The synchronous resolution inside resolveTranspiledModuleAsync ended as r
ResolveTranspiledModuleAsyncResolved(r, path, currentPath, query) ==
    IF ~r.out.ok /\ isMissingDependencyModule(r.out)
    THEN DownloadDependencyAwaits(r, path, currentPath, query)
    ELSE ResolveTranspiledModuleAsyncReturns(r, "resolveTranspiledModuleAsync", path, currentPath, query)

\* resolveTranspiledModuleAsync(query + path, currentTModule) for a transpiled
\* module of the registry
ResolveTranspiledModuleAsync(path, currentPath, query) ==
    /\ call.op = "idle"
    /\ Has(transpiledModulesByHash, Hash(currentPath, ""))
    /\ ResolveTranspiledModuleAsyncResolved(resolveTranspiledModule(This, query, path, currentPath), path, currentPath, query)

\* The download ends: the promise of downloadDependency settles
DownloadDependencyReturn ==
    /\ call.op = "downloadDependency"
    /\ ResolveTranspiledModuleAsyncReturns(
           downloadDependency(This, last.out.path, last.loader), "downloadDependency", last.path, last.from, last.loader)

\* The network fails: the promise of downloadDependency is rejected
DownloadDependencyFails ==
    /\ call.op = "downloadDependency"
    /\ ResolveTranspiledModuleAsyncReturns(
           [S |-> This, out |-> Failed("FetchError", NoPath, FALSE), hash |-> Hash(NoPath, last.loader)],
           "downloadDependency", last.path, last.from, last.loader)

\* (request, currentPath, loader query) handed to resolveTranspiledModuleAsync
FetchInputs ==
    {<<ReqReact, IndexPath, "">>, <<ReqReact, IndexPath, "raw-loader">>, <<ReqLodash, IndexPath, "">>,
     <<ReqDep, IndexPath, "">>, <<ReqFs, IndexPath, "raw-loader">>}

\* lodash listed, which npm does not serve
LodashManifest ==
    [contents |-> EmptyMap,
     dependencies |-> <<[name |-> ReqLodash, version |-> "4.0.0"]>>,
     dependencyDependencies |-> {}, dependencyAliases |-> EmptyMap]

-----------------------------------------------------------------------------
(* File-set changes beside cached resolutions *)

\* '/dep/index.js': what './dep' resolves to while there is no '/dep.js'
DepIndexPath == <<"", "dep", "index.js">>

\* Modules the file-system wrapper adds
AddedModules == {Module(DepIndexPath, "v1"), Module(DepPath, "v2")}

\* The requests resolved between the changes
CachedResolveInputs == {<<ReqDep, IndexPath>>, <<ReqReact, IndexPath>>}

-----------------------------------------------------------------------------
(* Transpilation jobs in flight while other operations are called *)

\* The most jobs of one transpiled module the model lets run at once
MaxJobsPerModule == 2

\* The hashes with a job in flight
Running == {j[1] : j \in call.running}

\* The jobs of the transpiled module h in flight
JobsOf(h) == {j \in call.running : j[1] = h}

\* One more job may be started for each of the hashes
MayStart(hs) == \A h \in hs : Cardinality(JobsOf(h)) < MaxJobsPerModule

\* A new job for each of the hashes, numbered apart from the one in flight
NewJobs(running, hs) ==
    {<<h, CHOOSE n \in 1..MaxJobsPerModule :
              <<h, n>> \notin running /\ \A m \in 1..(n - 1) : <<h, m>> \in running>> : h \in hs}

\* A job is started for every requested transpiled module, whatever
\* transpileJobs holds
jobsOfEveryRequest(S, hs) == hs

\* tModule.transpile(manager) is called for each of hs: one that has a job in
\* transpileJobs shares its promise, the others start a job
jobsToStart(S, hs) == hs \ S.transpileJobs

\* The jobs asked for are started and enter transpileJobs
JobsStarted(S, hs, op, path) ==
    /\ call.op = "idle"
    /\ MayStart(jobsToStart(S, hs))
    /\ Becomes([S EXCEPT !.transpileJobs = @ \cup hs])
    /\ call' = [call EXCEPT !.running = NewJobs(@, jobsToStart(S, hs)) \cup @]
    /\ last' = [Returned(op, path, NoPath, Done) EXCEPT !.repeat = FALSE, !.prev = Done, !.transpiled = jobsToStart(S, hs)]
    /\ UNCHANGED saved

\* transpileModules(entry) is called while jobs may be in flight
TranspileModulesStarts(r) ==
    JobsStarted(r.S, IF shouldTranspileTModule(r.S, r.hash) THEN {r.hash} ELSE {}, "transpileModules:jobs", NoPath)

TranspileModulesAmidJobs(p) ==
    /\ Has(transpiledModules, p)
    /\ TranspileModulesStarts(transpileModulesSync(This, transpiledModules[p].module, FALSE))

\* verifyTreeTranspiled(): every transpiled module that should be transpiled is
VerifyTreeTranspiled ==
    JobsStarted(This, {h \in getTranspiledModules(This) : shouldTranspileTModule(This, h)}, "verifyTreeTranspiled:jobs", NoPath)

\* updateData(modules) is called while jobs may be in flight: transpileJobs is
\* emptied, the store is brought to the module map, and the jobs of the
\* modules to update are started
UpdateDataStarts(r) ==
    /\ call.op = "idle"
    /\ MayStart(r.transpile)
    /\ Becomes([r.S EXCEPT !.transpileJobs = r.transpile])
    /\ call' = [call EXCEPT !.running = NewJobs(@, r.transpile) \cup @,
                            !.superseded = @ \cup Running,
                            !.changed = (r.added \cup r.updated \cup r.deleted # {}),
                            !.cacheBefore = cachedPaths]
    /\ last' = [Returned("updateData:jobs", NoPath, NoPath, Done) EXCEPT
                  !.repeat = FALSE, !.prev = Done, !.transpiled = r.transpile, !.skipped = r.skipped,
                  !.changed = (r.added \cup r.updated \cup r.deleted # {}), !.cacheBefore = cachedPaths]
    /\ UNCHANGED saved

UpdateDataAmidJobs(M) == UpdateDataStarts(updateDataSync(This, M))

\* The job j ended in the state S and is taken out of transpileJobs
JobEnded(j, S) ==
    /\ Becomes([S EXCEPT !.transpileJobs = @ \ {j[1]}])
    /\ call' = [call EXCEPT !.running = @ \ {j},
                            !.superseded = @ \cap {k[1] : k \in call.running \ {j}}]
    /\ last' = [Returned("transpiled", NoPath, NoPath, Done) EXCEPT !.repeat = FALSE, !.prev = Done, !.transpiled = {j[1]}]
    /\ UNCHANGED saved

\* A job in flight ends: the transpilers have run and the dependencies are
\* resolved; the job of a transpiled module that is gone has nothing to write
JobEnds(j) ==
    /\ call.op = "idle"
    /\ j \in call.running
    /\ JobEnded(j, IF Has(transpiledModulesByHash, j[1]) THEN transpileTModule(This, j[1]).S ELSE This)

-----------------------------------------------------------------------------
(* What serialize keeps: a manifest with modules of every kind *)

\* 'react/index.mjs' of the packager: an ES module, which setManifest leaves
\* without requires
ReactMjsPath == <<"", "node_modules", "react", "index.mjs">>

EsmCode == "export default lib"

\* react with a CommonJS file that has its requires, and an ES module beside
\* it under an extension other than .js
EsmManifest ==
    [contents |-> (ReactPath :> [content |-> LibCode, requires |-> <<>>])
                  @@ (ReactMjsPath :> [content |-> EsmCode, requires |-> <<>>]),
     dependencies |-> <<[name |-> ReqReact, version |-> "17.0.0"]>>,
     dependencyDependencies |-> {}, dependencyAliases |-> EmptyMap]

\* react as an ES module in its .js file
EsmJsManifest ==
    [contents |-> (ReactPath :> [content |-> EsmCode, requires |-> <<>>]),
     dependencies |-> <<[name |-> ReqReact, version |-> "17.0.0"]>>,
     dependencyDependencies |-> {}, dependencyAliases |-> EmptyMap]

\* The modules of the store whose transpiled module is asked for
StoredModules == {transpiledModules[p].module : p \in DOMAIN transpiledModules}

-----------------------------------------------------------------------------
(* Evaluation *)

\* Code that accepts hot updates of itself, and code that throws when it runs
HotCode == "module.hot.accept()"

ThrowingCode == "throw new Error()"

\* The elements of a set of hashes as a sequence, in the order the registry
\* is walked
RECURSIVE InOrder(_)
InOrder(hs) ==
    IF hs = {} THEN <<>>
    ELSE <<CHOOSE x \in hs : TRUE>> \o InOrder(hs \ {CHOOSE x \in hs : TRUE})

\* tModule.evaluate(manager): a module without source has not been transpiled
\* and throws; one with a compilation gives its exports; otherwise the
\* modules it requires are evaluated, then its code runs and the compilation
\* is recorded, with the HMR state of code that uses module.hot
RECURSIVE evaluateTModule(_, _, _)
RECURSIVE evaluateTModules(_, _, _)
evaluateTModules(S, hs, stack) ==
    IF hs = {} THEN [S |-> S, ok |-> TRUE]
    ELSE LET h == CHOOSE x \in hs : TRUE
             first == evaluateTModule(S, h, stack)
         IN  IF first.ok THEN evaluateTModules(first.S, hs \ {h}, stack) ELSE first

evaluated(S, h) ==
    [S |-> [S EXCEPT !.transpiledModulesByHash[h].compilation = TRUE,
                     !.transpiledModulesByHash[h].hmrConfig = (S.transpiledModulesByHash[h].module.code = HotCode),
                     !.transpiledModulesByHash[h].hmrDirty = FALSE],
     ok |-> TRUE]

threw(S, h) == [S |-> [S EXCEPT !.transpiledModulesByHash[h].errors = TRUE], ok |-> FALSE]

evaluateRequired(required, S, h) ==
    IF ~required.ok THEN required
    ELSE IF S.transpiledModulesByHash[h].module.code = ThrowingCode THEN threw(required.S, h)
    ELSE evaluated(required.S, h)

evaluateTModule(S, h, stack) ==
    IF ~S.transpiledModulesByHash[h].source THEN [S |-> S, ok |-> FALSE]
    ELSE IF S.transpiledModulesByHash[h].compilation \/ h \in stack THEN [S |-> S, ok |-> TRUE]
    ELSE evaluateRequired(evaluateTModules(S, S.transpiledModulesByHash[h].dependencies, stack \cup {h}), S, h)

\* evaluateTranspiledModule(transpiledModule, undefined, {force})
evaluateTranspiledModule(S, h, force) ==
    evaluateTModule(IF force THEN [S EXCEPT !.transpiledModulesByHash[h].compilation = FALSE] ELSE S, h, {})

\* The transpiled modules with a dirty HMR state are evaluated in turn, each
\* under the status apply; the first that throws ends the walk. calls are the
\* modules evaluate was called on
RECURSIVE evaluateDirty(_, _, _)
evaluateDirty(S, hs, calls) ==
    IF hs = <<>> THEN [S |-> S, ok |-> TRUE, calls |-> calls]
    ELSE LET first == evaluateTModule(setHmrStatus(S, "apply"), Head(hs), {})
         IN  IF first.ok THEN evaluateDirty(first.S, Tail(hs), Append(calls, Head(hs)))
             ELSE [S |-> first.S, ok |-> FALSE, calls |-> Append(calls, Head(hs))]

\* The transpiled modules with an HMR state, dirty or not
hotTModules(S) == {h \in getTranspiledModules(S) : S.transpiledModulesByHash[h].hmrConfig}

\* filter(t => t.hmrConfig && t.hmrConfig.isDirty())
dirtyTModules(S) ==
    {h \in getTranspiledModules(S) : S.transpiledModulesByHash[h].hmrConfig /\ S.transpiledModulesByHash[h].hmrDirty}

\* What evaluateModule did: the new state, what it returned or threw, the
\* modules evaluate and postEvaluate were called on, in order, and whether
\* the page was reloaded
Evaluation(S, out, calls, hooks, reloaded) ==
    [S |-> S, out |-> out, evaluated |-> calls, postEvaluated |-> hooks, reloaded |-> reloaded]

EvaluationError(path) == Failed("EvaluationError", path, FALSE)

\* An evaluation that threw, with the status set to fail on the way out
failedEvaluationWithStatus(S, path, calls, hooks) ==
    Evaluation(setHmrStatus(S, "fail"), EvaluationError(path), calls, hooks, FALSE)

\* An evaluation that threw: evaluateModule has no catch block, the error of
\* the module at path leaves it as it came
failedEvaluation(S, path, calls, hooks) == Evaluation(S, EvaluationError(path), calls, hooks, FALSE)

\* The exports are returned and the status stays what it was
returnedExportsWithStatusKept(S, module, calls, hooks) ==
    Evaluation(S, Resolved(module, FALSE), calls, hooks, FALSE)

\* The entry gave its exports: this.setHmrStatus('idle'); return exports
returnedExports(S, module, calls, hooks) ==
    Evaluation(setHmrStatus(S, "idle"), Resolved(module, FALSE), calls, hooks, FALSE)

\* No hook is called
postEvaluateNone(S) == <<>>

\* this.getTranspiledModules().forEach(t => t.postEvaluate(this)): the
\* modules the hook is called on, in order
postEvaluateTModules(S) == InOrder(getTranspiledModules(S))

\* The status is set to idle whether the entry gave its exports or threw
evaluateEntryThenIdle(dirty, entry, module, h) ==
    IF entry.ok
    THEN returnedExports(entry.S, module, Append(dirty.calls, h), postEvaluateTModules(entry.S))
    ELSE failedEvaluation(setHmrStatus(entry.S, "idle"), module.path, Append(dirty.calls, h), postEvaluateTModules(entry.S))

\* The entry was evaluated after the dirty modules: the status becomes idle
\* when it gave its exports, and postEvaluate runs on every transpiled module
\* in either case
evaluateEntry(dirty, entry, module, h) ==
    IF entry.ok
    THEN returnedExports(entry.S, module, Append(dirty.calls, h), postEvaluateTModules(entry.S))
    ELSE failedEvaluation(entry.S, module.path, Append(dirty.calls, h), postEvaluateTModules(entry.S))

evaluateAfterDirty(dirty, module, force) ==
    IF ~dirty.ok
    THEN failedEvaluation(dirty.S, dirty.S.transpiledModulesByHash[Last(dirty.calls)].module.path, dirty.calls, <<>>)
    ELSE evaluateEntry(dirty,
                       evaluateTranspiledModule(getTranspiledModule(dirty.S, module, ""),
                                                getTranspiledModuleHash(dirty.S, module, ""), force),
                       module, getTranspiledModuleHash(dirty.S, module, ""))

\* The evaluation with the stage set to evaluation first
evaluatesInEvaluationStage(S, module, force) ==
    evaluateAfterDirty(evaluateDirty([S EXCEPT !.stage = "evaluation"], InOrder(dirtyTModules(S)), <<>>), module, force)

\* evaluateModule past its test for a reload: the dirty modules, then the
\* entry, under the stage the manager is in
evaluates(S, module, force) ==
    evaluateAfterDirty(evaluateDirty(S, InOrder(dirtyTModules(S)), <<>>), module, force)

\* The test of evaluateModule for a reload, without the first load
reloadPending(S) == S.hardReload

\* this.hardReload && !this.isFirstLoad
reloads(S) == S.hardReload /\ ~S.isFirstLoad

\* evaluateModule(module, {force})
evaluateModule(S, module, force) ==
    IF reloads(S) THEN Evaluation(S, Done, <<>>, <<>>, TRUE)
    ELSE evaluates(S, module, force)

\* markHardReload()
markHardReload(S) == [setHmrStatus(S, "fail") EXCEPT !.hardReload = TRUE]

\* addStatusHandler(cb): a Set keeps one entry for a listener
addStatusHandler(S, cb) ==
    IF \E i \in 1..Len(S.hmrStatusChangeListeners) : S.hmrStatusChangeListeners[i] = cb THEN S
    ELSE [S EXCEPT !.hmrStatusChangeListeners = Append(@, cb)]

\* removeStatusHandler(cb)
removeStatusHandler(S, cb) ==
    [S EXCEPT !.hmrStatusChangeListeners = SelectSeq(@, LAMBDA l : l # cb)]

\* The listeners of the model
Listeners == {"listener 1", "listener 2"}

Statuses == {"idle", "check", "apply", "fail", "dispose"}

\* evaluateModule(module, {force}); status is the HMR status at the call
EvaluateModule(module, force) ==
    /\ call.op = "idle"
    /\ Becomes(evaluateModule(This, module, force).S)
    /\ last' = [Returned("evaluateModule", module.path, NoPath, evaluateModule(This, module, force).out) EXCEPT
                  !.repeat = FALSE, !.prev = Done,
                  !.evaluated = evaluateModule(This, module, force).evaluated,
                  !.postEvaluated = evaluateModule(This, module, force).postEvaluated,
                  !.reloaded = evaluateModule(This, module, force).reloaded,
                  !.status = hmrStatus]
    /\ UNCHANGED <<call, saved>>

MarkHardReload == Returns(markHardReload(This), "markHardReload", NoPath, NoPath, Done)

\* setHmrStatus(status); removed is the listener that the operation just
\* before took off the set
SetHmrStatus(status) ==
    /\ call.op = "idle"
    /\ Becomes(setHmrStatus(This, status))
    /\ last' = [Returned("setHmrStatus", NoPath, NoPath, Done) EXCEPT
                  !.repeat = FALSE, !.prev = Done,
                  !.status = status,
                  !.removed = IF last.op = "removeStatusHandler" THEN last.removed ELSE {}]
    /\ UNCHANGED <<call, saved>>

AddStatusHandler(cb) == Returns(addStatusHandler(This, cb), "addStatusHandler", NoPath, NoPath, Done)

RemoveStatusHandler(cb) ==
    /\ call.op = "idle"
    /\ Becomes(removeStatusHandler(This, cb))
    /\ last' = [Returned("removeStatusHandler", NoPath, NoPath, Done) EXCEPT
                  !.repeat = FALSE, !.prev = Done,
                  !.removed = {l \in {cb} : \E i \in 1..Len(hmrStatusChangeListeners) : hmrStatusChangeListeners[i] = l}]
    /\ UNCHANGED <<call, saved>>

\* Module maps with code that accepts hot updates and code that throws
EvalModuleMaps ==
    {(IndexPath :> Module(IndexPath, "v1")),
     (IndexPath :> Module(IndexPath, "v1")) @@ (DepPath :> Module(DepPath, ThrowingCode)),
     (IndexPath :> Module(IndexPath, HotCode)) @@ (DepPath :> Module(DepPath, ThrowingCode)),
     (IndexPath :> Module(IndexPath, "v1")) @@ (DepPath :> Module(DepPath, HotCode))}

\* Every operation of the manager
Next ==
    \/ \E M \in ModuleMaps : Construct(M)
    \/ \E m \in NewModules : AddModule(m)
    \/ \E m \in NewModules, q \in Queries : AddTranspiledModule(m, q)
    \/ \E m \in NewModules, q \in Queries : GetTranspiledModule(m, q)
    \/ \E m \in WrapperModules : RemoveModule(m)
    \/ \E m \in WrapperModules : MoveModule(m, DepPath)
    \/ \E m \in WrapperModules : UpdateModule(m)
    \/ \E M \in Manifests : SetManifest(M)
    \/ \E c \in Configurations : UpdateConfigurations(c)
    \/ \E st \in {"transpilation", "evaluation"} : SetStage(st)
    \/ FetchMeta
    \/ \E i \in ResolveInputs : ResolveModule(i[1], i[2])
    \/ \E i \in ResolveInputs : ResolveModuleAsync(i[1], i[2])
    \/ \E i \in TranspiledResolveInputs : ResolveTranspiledModule(i[1], i[2])
    \/ TranspileModules(IndexPath)
    \/ TranspileModulesReturn
    \/ \E M \in ModuleMaps : UpdateData(M)
    \/ \E h \in call.todo : TranspileStep(h)
    \/ UpdateDataReturn
    \/ Serialize
    \/ \E d \in LoadInputs \cup StoredCaches : Load(d)
    \/ \E i \in FetchInputs : ResolveTranspiledModuleAsync(i[1], i[2], i[3])
    \/ DownloadDependencyReturn
    \/ DownloadDependencyFails
    \/ \E p \in {IndexPath, DepPath} : TranspileModulesAmidJobs(p)
    \/ VerifyTreeTranspiled
    \/ \E M \in ModuleMaps : UpdateDataAmidJobs(M)
    \/ \E j \in call.running : JobEnds(j)
    \/ SetupFileResolver
    \/ \E m \in StoredModules, force \in BOOLEAN : EvaluateModule(m, force)
    \/ MarkHardReload
    \/ \E status \in Statuses : SetHmrStatus(status)
    \/ \E cb \in Listeners : AddStatusHandler(cb)
    \/ \E cb \in Listeners : RemoveStatusHandler(cb)
    \/ \E p \in {IndexPath, DepPath} : TranspileTestFile(p)

Spec == Init /\ [][Next]_vars

\* The Module Store and the registry under every operation that changes them
NextStore ==
    \/ \E m \in NewModules : AddModule(m)
    \/ \E m \in NewModules, q \in Queries : AddTranspiledModule(m, q)
    \/ \E m \in NewModules, q \in Queries : GetTranspiledModule(m, q)
    \/ \E m \in WrapperModules : RemoveModule(m)
    \/ \E m \in WrapperModules : MoveModule(m, DepPath)
    \/ \E m \in WrapperModules : UpdateModule(m)
    \/ \E M \in ModuleMaps : UpdateData(M)
    \/ \E h \in call.todo : TranspileStep(h)
    \/ UpdateDataReturn
    \/ \E d \in StoredCaches : Load(d)

SpecStore == Init /\ [][NextStore]_vars

\* The resolver over the stores, manifests and stages it can meet
NextResolve ==
    \/ \E M \in Manifests : SetManifest(M)
    \/ \E st \in {"transpilation", "evaluation"} : SetStage(st)
    \/ FetchMeta
    \/ \E i \in ResolveInputs : ResolveModule(i[1], i[2])
    \/ \E i \in ResolveInputs : ResolveModuleAsync(i[1], i[2])

SpecResolve == Init /\ [][NextResolve]_vars

\* updateData with the transpilations it awaits
NextUpdate ==
    \/ \E M \in {EmptyManifest, ReactManifest} : SetManifest(M)
    \/ \E c \in Configurations : UpdateConfigurations(c)
    \/ \E i \in TranspiledResolveInputs : ResolveTranspiledModule(i[1], i[2])
    \/ TranspileModules(IndexPath)
    \/ TranspileModulesReturn
    \/ \E M \in ModuleMaps : UpdateData(M)
    \/ \E h \in call.todo : TranspileStep(h)
    \/ UpdateDataReturn

SpecUpdate == Init /\ [][NextUpdate]_vars

\* serialize and load, within one session and across a reload of the page
NextCache ==
    \/ \E M \in PlainModuleMaps : Construct(M)
    \/ SetManifest(ReactManifest)
    \/ UpdateConfigurations(SandboxConfigurations)
    \/ TranspileModules(IndexPath)
    \/ \E h \in call.todo : TranspileStep(h)
    \/ TranspileModulesReturn
    \/ Serialize
    \/ \E d \in LoadInputs : Load(d)

SpecCache == Init /\ [][NextCache]_vars

\* The resolver inside and outside a package whose dependencies are aliased
NextAlias ==
    \/ \E M \in {EmptyManifest, ReactManifest, AliasManifest} : SetManifest(M)
    \/ \E i \in AliasInputs : ResolveModule(i[1], i[2])
    \/ \E i \in AliasInputs : ResolveModuleAsync(i[1], i[2])

SpecAlias == Init /\ [][NextAlias]_vars

\* Asynchronous resolution with the download of missing dependencies
NextFetch ==
    \/ \E M \in {EmptyManifest, ListedManifest, LodashManifest} : SetManifest(M)
    \/ \E m \in WrapperModules : GetTranspiledModule(m, "")
    \/ \E m \in WrapperModules : RemoveModule(m)
    \/ \E i \in FetchInputs : ResolveTranspiledModuleAsync(i[1], i[2], i[3])
    \/ DownloadDependencyReturn
    \/ DownloadDependencyFails

SpecFetch == Init /\ [][NextFetch]_vars

\* Changes of the file set between resolutions
NextInvalidate ==
    \/ \E m \in AddedModules : AddModule(m)
    \/ \E m \in WrapperModules : RemoveModule(m)
    \/ \E m \in WrapperModules : MoveModule(m, DepPath)
    \/ \E M \in {EmptyManifest, ReactManifest} : SetManifest(M)
    \/ FetchMeta
    \/ \E i \in CachedResolveInputs : ResolveModule(i[1], i[2])
    \/ \E i \in CachedResolveInputs : ResolveModuleAsync(i[1], i[2])
    \/ \E M \in ModuleMaps : UpdateData(M)
    \/ \E h \in call.todo : TranspileStep(h)
    \/ UpdateDataReturn

SpecInvalidate == Init /\ [][NextInvalidate]_vars

\* transpileModules, verifyTreeTranspiled and updateData called while
\* transpilation jobs are in flight
NextJobs ==
    \/ \E p \in {IndexPath, DepPath} : TranspileModulesAmidJobs(p)
    \/ VerifyTreeTranspiled
    \/ \E M \in ModuleMaps : UpdateDataAmidJobs(M)
    \/ \E j \in call.running : JobEnds(j)

SpecJobs == Init /\ [][NextJobs]_vars

\* The resolvers over the stages, with and without a file resolver
NextFiles ==
    \/ SetupFileResolver
    \/ \E st \in {"transpilation", "evaluation"} : SetStage(st)
    \/ FetchMeta
    \/ \E m \in WrapperModules : RemoveModule(m)
    \/ \E i \in CachedResolveInputs : ResolveModule(i[1], i[2])
    \/ \E i \in CachedResolveInputs : ResolveModuleAsync(i[1], i[2])

SpecFiles == Init /\ [][NextFiles]_vars

\* serialize over stores with sandbox modules, manifest modules and
\* downloaded modules
NextPersist ==
    \/ \E M \in {ListedManifest, EsmManifest, EsmJsManifest} : SetManifest(M)
    \/ \E m \in StoredModules : GetTranspiledModule(m, "")
    \/ \E i \in {<<ReqReact, IndexPath, "">>} : ResolveTranspiledModuleAsync(i[1], i[2], i[3])
    \/ DownloadDependencyReturn
    \/ DownloadDependencyFails
    \/ Serialize

SpecPersist == Init /\ [][NextPersist]_vars

\* Evaluation between transpilations, updates and hard-reload marks
NextEvaluate ==
    \/ UpdateConfigurations(SandboxConfigurations)
    \/ \E st \in {"transpilation", "evaluation"} : SetStage(st)
    \/ \E p \in {IndexPath, DepPath} : TranspileModules(p)
    \/ TranspileModulesReturn
    \/ \E M \in EvalModuleMaps : UpdateData(M)
    \/ \E h \in call.todo : TranspileStep(h)
    \/ UpdateDataReturn
    \/ MarkHardReload
    \/ \E m \in StoredModules, force \in BOOLEAN : EvaluateModule(m, force)

SpecEvaluate == Init /\ [][NextEvaluate]_vars

\* updateConfigurations over bundles that differ in content and in the order
\* of their keys, with transpiled and evaluated modules in the registry
NextConfig ==
    \/ \E c \in OrderedConfigurations : UpdateConfigurations(c)
    \/ \E p \in {IndexPath, DepPath} : TranspileModules(p)
    \/ \E h \in call.todo : TranspileStep(h)
    \/ TranspileModulesReturn
    \/ \E m \in StoredModules : EvaluateModule(m, FALSE)

SpecConfig == Init /\ [][NextConfig]_vars

\* Module maps for the status: code that accepts hot updates, code whose
\* requires cannot be resolved, and code that throws when it runs
StatusModuleMaps ==
    {(IndexPath :> Module(IndexPath, HotCode)),
     (IndexPath :> Module(IndexPath, "v2")),
     (IndexPath :> Module(IndexPath, "v1")) @@ (DepPath :> Module(DepPath, ThrowingCode))}

\* The HMR status and its listeners over transpilation, evaluation and hard
\* reloads
NextStatus ==
    \/ \E cb \in Listeners : AddStatusHandler(cb)
    \/ \E cb \in Listeners : RemoveStatusHandler(cb)
    \/ \E status \in Statuses : SetHmrStatus(status)
    \/ MarkHardReload
    \/ \E p \in {IndexPath, DepPath} : TranspileModules(p)
    \/ \E h \in call.todo : TranspileStep(h)
    \/ TranspileModulesReturn
    \/ \E M \in StatusModuleMaps : UpdateData(M)
    \/ UpdateDataReturn
    \/ \E m \in StoredModules : EvaluateModule(m, FALSE)

SpecStatus == Init /\ [][NextStatus]_vars

\* Bundles with and without sandbox.config.json, asking for a hard reload on
\* change or not
ReloadConfigurations ==
    {NoConfigurations, SandboxConfigurations,
     [hasSandbox |-> TRUE, hardReloadOnChange |-> FALSE, keys |-> <<"sandbox">>]}

\* The hard-reload flag over configurations, updates and evaluations
NextReload ==
    \/ \E c \in ReloadConfigurations : UpdateConfigurations(c)
    \/ MarkHardReload
    \/ \E M \in PlainModuleMaps : UpdateData(M)
    \/ \E h \in call.todo : TranspileStep(h)
    \/ UpdateDataReturn
    \/ \E m \in StoredModules : EvaluateModule(m, FALSE)

SpecReload == Init /\ [][NextReload]_vars

\* updateData over transpiled modules with loader variants, test files,
\* failed transpilations and missing dependencies
NextRetranspile ==
    \/ \E M \in {EmptyManifest, ReactManifest} : SetManifest(M)
    \/ \E m \in StoredModules, q \in Queries : GetTranspiledModule(m, q)
    \/ \E p \in {IndexPath, DepPath} : TranspileTestFile(p)
    \/ TranspileModulesReturn
    \/ \E M \in ModuleMaps : UpdateData(M)
    \/ \E h \in call.todo : TranspileStep(h)
    \/ UpdateDataReturn

SpecRetranspile == Init /\ [][NextRetranspile]_vars

\* load of records with and without broken references, into managers with and
\* without the files of react
NextRestore ==
    \/ \E M \in PlainModuleMaps : Construct(M)
    \/ \E M \in {EmptyManifest, ReactManifest} : SetManifest(M)
    \/ \E m \in StoredModules : GetTranspiledModule(m, "")
    \/ Serialize
    \/ \E d \in {saved, StoredCache, BrokenCache} : Load(d)

SpecRestore == Init /\ [][NextRestore]_vars

\* The requests that get the empty shim, from a sandbox file and from a file of
\* a dependency, beside one that resolves to a file
ShimInputs ==
    {<<ReqFs, IndexPath>>, <<ReqSys, IndexPath>>, <<ReqWs, IndexPath>>, <<ReqFs, ReactPath>>, <<ReqDep, IndexPath>>}

\* The resolvers over requests that are shimmed
NextShim ==
    \/ SetManifest(ReactManifest)
    \/ \E m \in StoredModules : RemoveModule(m)
    \/ \E i \in ShimInputs : ResolveModule(i[1], i[2])
    \/ \E i \in ShimInputs : ResolveTranspiledModule(i[1], i[2])

SpecShim == Init /\ [][NextShim]_vars

\* Evaluation of modules that throw, clean and dirty, with a listener of the
\* status
NextThrow ==
    \/ \E cb \in Listeners : AddStatusHandler(cb)
    \/ \E status \in {"check", "idle"} : SetHmrStatus(status)
    \/ \E M \in EvalModuleMaps : UpdateData(M)
    \/ \E h \in call.todo : TranspileStep(h)
    \/ UpdateDataReturn
    \/ \E m \in StoredModules : EvaluateModule(m, FALSE)

SpecThrow == Init /\ [][NextThrow]_vars

\* serialize and load over the metas of downloaded packages
NextMeta ==
    \/ \E p \in MetaPaths : FetchMetaOf(p)
    \/ \E M \in {EmptyManifest, ReactManifest} : SetManifest(M)
    \/ Serialize
    \/ \E d \in {saved, NoData} : Load(d)

SpecMeta == Init /\ [][NextMeta]_vars

-----------------------------------------------------------------------------
(* Properties: updateData *)

\* The path lies under /node_modules
UnderNodeModules(p) == Len(p) >= 2 /\ p[1] = "" /\ p[2] = "node_modules"

\* The promise of updateData has just settled
UpdateDataSettled == last.op = "updateData"

\* Every path of the module map has a Module of the store, with the code of the map
StoreHoldsModuleMap ==
    \A p \in DOMAIN modules :
        Has(transpiledModules, p) /\ transpiledModules[p].module.code = modules[p].code

\* The paths of the store that hold a Module which is no child of another
NonChildPaths == {p \in DOMAIN transpiledModules : ~transpiledModules[p].module.parent}

\* C1 as the spec states it: after updateData(M) completes, every path of M has
\* a Module with the code of M, and no non-child Module lies outside M,
\* /node_modules and the shim path.
C1_StoreMirrorsModuleMap ==
    (UpdateDataSettled /\ last.out.ok) =>
        /\ StoreHoldsModuleMap
        /\ \A p \in NonChildPaths :
              \/ Has(modules, p)
              \/ UnderNodeModules(p)
              \/ p \in {ShimCanonicalPath, BrowserResolveEmptyPath}

\* C1, amended: after updateData(M) settles, every path of M has a Module with
\* the code of M, and every non-child Module outside M and outside
\* /node_modules is the browser-resolve empty file or an empty shim (code
\* `// empty`) that a transpilation registered beside the requiring file.
C1_StoreMirrorsModuleMapButShims ==
    UpdateDataSettled =>
        /\ StoreHoldsModuleMap
        /\ \A p \in NonChildPaths :
              \/ Has(modules, p)
              \/ UnderNodeModules(p)
              \/ p = BrowserResolveEmptyPath
              \/ transpiledModules[p].module = [SHIMMED_MODULE EXCEPT !.path = p]

\* updateData changed the store and returned with a shim registered outside M
C1_ShimOutsideModuleMap ==
    /\ UpdateDataSettled
    /\ last.changed
    /\ \E p \in NonChildPaths :
          ~Has(modules, p) /\ ~UnderNodeModules(p) /\ transpiledModules[p].module.code = EmptyCode

\* Some request of some directory has a cached resolution
SomeCachedResolution == \E d \in DOMAIN cachedPaths : cachedPaths[d] # EmptyMap

\* Every resolution of the cache c is in cachedPaths, with the same value
CacheKeeps(c) ==
    \A d \in DOMAIN c : \A r \in DOMAIN c[d] :
        Has(cachedPaths, d) /\ Has(cachedPaths[d], r) /\ cachedPaths[d][r] = c[d][r]

\* C2 as the spec states it: after updateData returns, cachedPaths is empty
\* exactly when the call added, updated or deleted a module; when nothing
\* changed the entries cached before are still there.
C2_CacheEmptyIffChanged ==
    UpdateDataSettled =>
        /\ (~SomeCachedResolution) <=> last.changed
        /\ ~last.changed => CacheKeeps(last.cacheBefore)

\* C2, amended: when updateData reaches its await, cachedPaths is empty if the
\* call added, updated or deleted a module and is what it was before the call
\* otherwise; when nothing changed the entries cached before the call are
\* still there when it returns.
C2_CacheClearedWhenChanged ==
    /\ (call.op = "updateData" /\ last.op = "updateData:await") =>
          IF call.changed THEN cachedPaths = EmptyMap ELSE cachedPaths = call.cacheBefore
    /\ (UpdateDataSettled /\ ~last.changed) => CacheKeeps(last.cacheBefore)

\* updateData changed the store while resolutions were cached, and stands at its await
C2_ChangedWithCache ==
    /\ call.op = "updateData"
    /\ last.op = "updateData:await"
    /\ call.changed
    /\ \E d \in DOMAIN call.cacheBefore : call.cacheBefore[d] # EmptyMap

-----------------------------------------------------------------------------
(* Properties: the Module Store and the registry *)

\* C3: every TranspiledModule of transpiledModulesByHash is, under its own
\* hash, the one transpiledModules[tm.module.path].tModules[tm.query] holds.
C3_RegistryReachableFromStore ==
    \A h \in DOMAIN transpiledModulesByHash :
        LET tm == transpiledModulesByHash[h]
        IN  /\ Has(transpiledModules, tm.module.path)
            /\ Has(transpiledModules[tm.module.path].tModules, tm.query)
            /\ transpiledModules[tm.module.path].tModules[tm.query] = h

\* A module was removed or moved while transpiled modules of other paths remain
C3_RemovedBesideOthers ==
    /\ last.op \in {"removeModule", "moveModule"}
    /\ last.out.ok
    /\ transpiledModulesByHash # EmptyMap

-----------------------------------------------------------------------------
(* Properties: serialize and load *)

\* load has just returned
Loaded == last.op = "load"

\* A step of load(data) whose record was written by this compiler version for
\* the dependencies the manager has now
LoadsMatchingCache ==
    /\ last'.op = "load"
    /\ last'.valid
    /\ last'.version = SCRIPT_VERSION
    /\ last'.query = getDependencyQuery(This)

\* C4: load changes the registry, the store's transpiled modules, cachedPaths
\* or the configurations only when the record's version is SCRIPT_VERSION and
\* its dependency query is the manager's; otherwise they stay as they were;
\* in both cases load returns without an error.
C4_LoadRestoresOnlyMatchingCache ==
    [][last'.op = "load" =>
          /\ last'.out.ok
          /\ \/ LoadsMatchingCache
             \/ UNCHANGED <<transpiledModulesByHash, transpiledModules, cachedPaths, configurations>>]_vars

\* A record of this compiler version, written for other dependencies, was
\* handed to a manager that holds transpiled modules and cached resolutions
C4_LoadedForOtherDependencies ==
    /\ Loaded
    /\ last.valid
    /\ last.version = SCRIPT_VERSION
    /\ last.query # getDependencyQuery(This)
    /\ transpiledModulesByHash # EmptyMap
    /\ SomeCachedResolution

\* The transpiled modules the serialized ones refer to
ReferredBy(serialized) ==
    UNION {serialized[h].dependencies \cup serialized[h].initiators : h \in DOMAIN serialized}

\* The transpiled modules of the record come back with their module, query,
\* source and edges; those they refer to exist; a manager that held no
\* transpiled module holds no other; cachedPaths and configurations are those
\* of the record
RestoresSaved ==
    /\ cachedPaths' = saved.cachedPaths
    /\ configurations' = saved.configurations
    /\ \A h \in DOMAIN saved.transpiledModules :
          /\ Has(transpiledModulesByHash', h)
          /\ transpiledModulesByHash'[h].module = saved.transpiledModules[h].module
          /\ transpiledModulesByHash'[h].query = saved.transpiledModules[h].query
          /\ transpiledModulesByHash'[h].source = saved.transpiledModules[h].source
          /\ transpiledModulesByHash'[h].dependencies = saved.transpiledModules[h].dependencies
          /\ transpiledModulesByHash'[h].initiators = saved.transpiledModules[h].initiators
    /\ ReferredBy(saved.transpiledModules) \subseteq DOMAIN transpiledModulesByHash'
    /\ transpiledModulesByHash = EmptyMap =>
          DOMAIN transpiledModulesByHash' =
              DOMAIN saved.transpiledModules \cup ReferredBy(saved.transpiledModules)

\* Every edge between two serialized transpiled modules is recorded at both ends
EdgesRecordedAtBothEnds(serialized) ==
    \A h \in DOMAIN serialized :
        /\ \A d \in serialized[h].dependencies \cap DOMAIN serialized : h \in serialized[d].initiators
        /\ \A i \in serialized[h].initiators \cap DOMAIN serialized : h \in serialized[i].dependencies

-----------------------------------------------------------------------------
(* Properties: the resolver *)

\* resolveModule or resolveModuleAsync has just returned
ResolverReturned == last.op \in {"resolveModule", "resolveModuleAsync"}

\* C6, what it says of the result: a resolution repeated with nothing in
\* between succeeds again and gives the Module path the first one gave, for
\* every kind of request.
C6_ResolverIdempotent ==
    (ResolverReturned /\ last.repeat /\ last.prev.ok) =>
        /\ last.out.ok
        /\ last.out.module.path = last.prev.module.path

\* C7 as the spec states it, where no file is known from a package's meta
\* alone: for every request and fromPath, resolveModule and resolveModuleAsync
\* give the same Module or the same kind of error, and leave the same
\* cachedPaths.
C7_SyncAsyncAgree ==
    combinedMetas = {} =>
        \A i \in ResolveInputs :
            /\ resolveModule(This, i[1], i[2]).out.ok = resolveModuleAsync(This, i[1], i[2]).out.ok
            /\ resolveModule(This, i[1], i[2]).out.module = resolveModuleAsync(This, i[1], i[2]).out.module
            /\ resolveModule(This, i[1], i[2]).out.error = resolveModuleAsync(This, i[1], i[2]).out.error
            /\ resolveModule(This, i[1], i[2]).S.cachedPaths = resolveModuleAsync(This, i[1], i[2]).S.cachedPaths

\* The lookup of the resolver failed: the error comes from its catch block
LookupFailed ==
    /\ ResolverReturned
    /\ ~last.out.ok
    /\ last.out.error \in {"ModuleNotFoundError", "DependencyNotFoundError"}

\* The place the rewritten request points at: a bare name under /node_modules,
\* an absolute path itself, a relative one from the directory of fromPath
RewrittenTarget(request, from) ==
    IF request[1] \notin {"", ".", ".."} THEN <<"", "node_modules">> \o request
    ELSE IF request[1] = "" THEN request
    ELSE join(dirname(from), request)

\* The package a path under /node_modules belongs to
PackageOf(p) == IF p[3] \in ScopeSegments THEN <<p[3], p[4]>> ELSE <<p[3]>>

\* The manifest lists the package as a dependency or as a dependency of one
ManifestLists(name) ==
    \/ \E i \in 1..Len(manifest.dependencies) : manifest.dependencies[i].name = name
    \/ name \in manifest.dependencyDependencies

\* The error C8 gives for a rewritten request: its kind and its isDependency
ErrorFor(request, from) ==
    IF ~UnderNodeModules(RewrittenTarget(request, from)) \/ Len(RewrittenTarget(request, from)) < 3
    THEN <<"ModuleNotFoundError", FALSE>>
    ELSE IF ManifestLists(PackageOf(RewrittenTarget(request, from)))
    THEN <<"ModuleNotFoundError", TRUE>>
    ELSE <<"DependencyNotFoundError", FALSE>>

\* C8: when the lookup fails, the error is ModuleNotFoundError(isDependency =
\* true) if the rewritten path lies under /node_modules/<name> and the manifest
\* knows <name>, DependencyNotFoundError if it lies under /node_modules and
\* the manifest does not, ModuleNotFoundError(isDependency = false) otherwise.
C8_ErrorFollowsRewrittenPath ==
    LookupFailed =>
        <<last.out.error, last.out.isDependency>> = ErrorFor(shimmedPathOf(This, last.path, last.from), last.from)

\* A package the manifest lists, whose file is missing, was asked for
C8_ListedPackageMissing ==
    /\ LookupFailed
    /\ last.out.error = "ModuleNotFoundError"
    /\ last.out.isDependency
    /\ ManifestLists(last.path)

\* resolveModule failed in its lookup, for a fromPath outside /node_modules
FailedOutsideNodeModules ==
    /\ last.op = "resolveModule"
    /\ ~last.out.ok
    /\ ~UnderNodeModules(last.from)

\* C9 as the spec states it: a request that does not exist, relative, absolute
\* or a bare package name, from a fromPath outside /node_modules, raises
\* ModuleNotFoundError(isDependency = false).
C9_MissingRequestIsModuleNotFound ==
    FailedOutsideNodeModules =>
        last.out.error = "ModuleNotFoundError" /\ ~last.out.isDependency

\* C9, amended: from a fromPath outside /node_modules, a relative or absolute
\* request that does not exist and does not lead into /node_modules raises
\* ModuleNotFoundError(isDependency = false); a bare package name raises
\* DependencyNotFoundError, or ModuleNotFoundError(isDependency = true) when
\* the manifest lists the package.
C9_MissingFileIsModuleNotFound ==
    FailedOutsideNodeModules =>
        IF last.path[1] \in {"", ".", ".."}
        THEN UnderNodeModules(RewrittenTarget(last.path, last.from))
             \/ (last.out.error = "ModuleNotFoundError" /\ ~last.out.isDependency)
        ELSE \/ last.out.error = "DependencyNotFoundError"
             \/ (last.out.error = "ModuleNotFoundError" /\ last.out.isDependency)

\* A relative request for a file that is not there failed from /index.js
C9_MissingRelativeFile ==
    /\ FailedOutsideNodeModules
    /\ last.path = ReqDep
    /\ last.out.error = "ModuleNotFoundError"
    /\ ~last.out.isDependency

\* The names of the Node built-ins that are shimmed
NodeBuiltins == {<<"dgram">>, <<"net">>, <<"tls">>, <<"fs">>, <<"module">>, <<"child_process">>}

\* The request names a Node built-in, itself or through the core-library table
IsNodeBuiltin(request) == request \in NodeBuiltins \/ coreLibraries(request) \in NodeBuiltins

\* C10: resolveModule of a Node built-in name returns the empty shim, the
\* module of canonical path /node_modules/empty/index.js and code `// empty`
\* placed beside the requiring file, on the first call and on every later one.
C10_BuiltinResolvesToShim ==
    (last.op = "resolveModule" /\ IsNodeBuiltin(last.path)) =>
        /\ last.out.ok
        /\ last.out.module.code = EmptyCode
        /\ SHIMMED_MODULE.path = ShimCanonicalPath
        /\ last.out.module = [SHIMMED_MODULE EXCEPT !.path = join(dirname(last.from), last.path)]

\* A name the core-library table maps to a built-in was resolved a second time
C10_BuiltinResolvedAgain ==
    /\ last.op = "resolveModule"
    /\ last.repeat
    /\ last.path = ReqSys
    /\ last.path \notin NodeBuiltins
    /\ Has(cachedPaths, dirname(last.from))
    /\ Has(cachedPaths[dirname(last.from)], last.path)

-----------------------------------------------------------------------------
(* Properties: dependency aliasing *)

\* The package a file under /node_modules/ belongs to, <<>> for other files
ParentPackage(from) ==
    IF ~(Len(from) >= 3 /\ from[1] = "" /\ from[2] = "node_modules") THEN <<>>
    ELSE IF from[3] \in ScopeSegments /\ Len(from) >= 4 THEN <<from[3], from[4]>>
    ELSE <<from[3]>>

\* The manifest aliases the package the bare request names, for the package
\* the requiring file belongs to
AliasApplies(request, from) ==
    /\ request[1] \notin {"", ".", ".."}
    /\ ParentPackage(from) \in DOMAIN manifest.dependencyAliases
    /\ <<request[1]>> \in DOMAIN manifest.dependencyAliases[ParentPackage(from)]

\* The request with its package segment replaced by the alias
AliasedRequest(request, from) ==
    IF AliasApplies(request, from)
    THEN manifest.dependencyAliases[ParentPackage(from)][<<request[1]>>] \o Tail(request)
    ELSE request

\* C11: a bare request from a file under /node_modules/<parent>/ whose
\* package the manifest aliases for <parent> is rewritten so that its package
\* segment becomes the alias; a relative request, a request from outside
\* /node_modules and a request without an alias are returned unchanged.
C11_AliasRewritesPackageSegment ==
    \A i \in AliasInputs :
        getAliasedDependencyPath(This, i[1], i[2]) = AliasedRequest(i[1], i[2])

\* A path below an aliased package was resolved from the aliasing package and
\* found in the aliased version
C11_AliasedSubPathResolved ==
    /\ last.op = "resolveModule"
    /\ last.path = ReqReactIndex
    /\ last.from = ReduxPath
    /\ AliasApplies(last.path, last.from)
    /\ last.out.ok
    /\ last.out.module.path = React17Path

-----------------------------------------------------------------------------
(* Properties: asynchronous resolution and downloads *)

\* resolveTranspiledModuleAsync settled without a download
SettledWithoutDownload == last.op = "resolveTranspiledModuleAsync"

\* resolveTranspiledModuleAsync awaits the download it started
AwaitsDownload == last.op = "resolveTranspiledModuleAsync:await"

\* The download settled and the promise of resolveTranspiledModuleAsync with it
DownloadSettled == last.op = "downloadDependency"

\* The request names a package the manifest lists
NamesListedPackage(request) ==
    /\ request[1] \notin {"", ".", ".."}
    /\ ManifestLists(IF request[1] \in ScopeSegments /\ Len(request) >= 2 THEN <<request[1], request[2]>> ELSE <<request[1]>>)

C13_DependencyNotFoundDownloads ==
    /\ (SettledWithoutDownload /\ ~last.out.ok) => last.out.error # "DependencyNotFoundError"
    /\ AwaitsDownload => last.out.error = "DependencyNotFoundError"

\* C13, amended: a ModuleNotFoundError with isDependency = true (a missing
\* file of a package the manifest knows) starts a download; every other
\* error, DependencyNotFoundError included, is handed to the caller and no
\* download is started.
C13_MissingDependencyModuleDownloads ==
    /\ (SettledWithoutDownload /\ ~last.out.ok) =>
          /\ ~(last.out.error = "ModuleNotFoundError" /\ last.out.isDependency)
          /\ call.op = "idle"
    /\ AwaitsDownload =>
          /\ last.out.error = "ModuleNotFoundError"
          /\ last.out.isDependency
          /\ call.op = "downloadDependency"

\* A DependencyNotFoundError was handed to the caller
C13_DependencyNotFoundSurfaced ==
    /\ SettledWithoutDownload
    /\ ~last.out.ok
    /\ last.out.error = "DependencyNotFoundError"
    /\ call.op = "idle"

-----------------------------------------------------------------------------
(* Properties: the operations of the Module Store *)

\* C14: addModule(m) for a path the store already holds changes neither the
\* entry of the path, nor its transpiled modules, nor the registry (nor any
\* other entry of the store).
C14_AddModuleKeepsExistingEntry ==
    [][(last'.op = "addModule" /\ Has(transpiledModules, last'.path)) =>
          UNCHANGED <<transpiledModules, transpiledModulesByHash>>]_vars

\* addModule was called with other code for a path that has transpiled modules
C14_AddedOverTranspiledModule ==
    /\ last.op = "addModule"
    /\ Has(transpiledModules, last.path)
    /\ transpiledModules[last.path].module.code \notin {m.code : m \in NewModules}
    /\ transpiledModules[last.path].tModules # EmptyMap

\* The transpiled modules of a path of the store
VariantsOf(p) == Values(transpiledModules[p].tModules)

\* C15: removeModule(m) of a path the store holds removes every transpiled
\* module of m.path from the registry, and them only; none of those that
\* remain has one of them as a dependency or an initiator; the entry of
\* m.path is deleted, the other entries stay; cachedPaths is left empty.
C15_RemoveModuleRemovesVariants ==
    [][(last'.op = "removeModule" /\ last'.out.ok) =>
          /\ DOMAIN transpiledModulesByHash' = DOMAIN transpiledModulesByHash \ VariantsOf(last'.path)
          /\ \A h \in DOMAIN transpiledModulesByHash' :
                (transpiledModulesByHash'[h].dependencies \cup transpiledModulesByHash'[h].initiators)
                    \cap VariantsOf(last'.path) = {}
          /\ DOMAIN transpiledModules' = DOMAIN transpiledModules \ {last'.path}
          /\ \A h \in DOMAIN transpiledModulesByHash' : transpiledModulesByHash'[h].module.path # last'.path
          /\ cachedPaths' = EmptyMap]_vars

\* /dep.js was removed after the transpilation of /index.js, which required it, had failed
C15_RemovedRequiredModule ==
    /\ last.op = "removeModule"
    /\ last.out.ok
    /\ last.path = DepPath
    /\ Has(transpiledModulesByHash, Hash(IndexPath, ""))
    /\ transpiledModulesByHash[Hash(IndexPath, "")].errors
    /\ transpiledModulesByHash[Hash(IndexPath, "")].dependencies = {}

\* The old path of a move is gone from the store' and from the registry'
OldPathGone(m, newPath) ==
    newPath # m.path =>
        /\ ~Has(transpiledModules', m.path)
        /\ \A h \in DOMAIN transpiledModulesByHash' : transpiledModulesByHash'[h].module.path # m.path

\* C16 as the spec states it: after moveModule(m, newPath) the store has no
\* entry and no transpiled module for the old path, and the entry at newPath
\* holds m with the path newPath, whether newPath was in the store or not.
C16_MoveModuleReplaces ==
    [][(last'.op = "moveModule" /\ last'.out.ok) =>
          \E m \in WrapperModules :
              /\ m.path = last'.path
              /\ OldPathGone(m, last'.from)
              /\ Has(transpiledModules', last'.from)
              /\ transpiledModules'[last'.from].module = [m EXCEPT !.path = last'.from]]_vars

\* C16, amended: after moveModule(m, newPath) the store has no entry and no
\* transpiled module for the old path; the entry at newPath holds m with the
\* path newPath when newPath was not in the store (or is the old path), and
\* is left as it was, with its Module and its transpiled modules, when
\* newPath was already there: the moved module is then dropped.
C16_MoveModuleKeepsExistingTarget ==
    [][(last'.op = "moveModule" /\ last'.out.ok) =>
          \E m \in WrapperModules :
              /\ m.path = last'.path
              /\ OldPathGone(m, last'.from)
              /\ Has(transpiledModules', last'.from)
              /\ IF Has(transpiledModules, last'.from) /\ last'.from # m.path
                 THEN transpiledModules'[last'.from] = transpiledModules[last'.from]
                 ELSE transpiledModules'[last'.from] = [module |-> [m EXCEPT !.path = last'.from], tModules |-> EmptyMap]]_vars

\* /index.js was moved to /dep.js, which was there with other code and is
\* there still
C16_MovedOntoExistingPath ==
    /\ last.op = "moveModule"
    /\ last.out.ok
    /\ last.path = IndexPath
    /\ last.from = DepPath
    /\ ~Has(transpiledModules, IndexPath)
    /\ transpiledModules[DepPath].module.code = "v2"

-----------------------------------------------------------------------------
(* Properties: invalidation of cachedPaths *)

\* The operations that add, remove or move a path of the store
FileSetOperations ==
    {"addModule", "setManifest", "resolveModuleAsync", "removeModule", "moveModule", "updateData:await"}

\* An entry of cachedPaths is in cachedPaths' as it was
SurvivingEntries ==
    {<<d, r>> \in UNION {{<<d, r>> : r \in DOMAIN cachedPaths[d]} : d \in DOMAIN cachedPaths} :
        /\ Has(cachedPaths', d)
        /\ Has(cachedPaths'[d], r)
        /\ cachedPaths'[d][r] = cachedPaths[d][r]}

\* C17: after an operation that changed the set of paths of the store, no
\* entry that cachedPaths held before the operation is still there.
C17_FileSetChangeEmptiesCache ==
    [][(last'.op \in FileSetOperations /\ DOMAIN transpiledModules' # DOMAIN transpiledModules) =>
          SurvivingEntries = {}]_vars

-----------------------------------------------------------------------------
(* Properties: transpilation jobs *)

\* C18 as the spec states it: in every interleaving of transpileModules,
\* verifyTreeTranspiled and updateData, no transpiled module has two jobs in
\* flight at once.
C18_OneJobPerModule ==
    \A h \in Running : Cardinality(JobsOf(h)) <= 1

\* C18, amended: a request for a transpiled module that has a job in
\* transpileJobs starts no second job; two jobs of one transpiled module are
\* in flight at once only when updateData emptied transpileJobs while the
\* first was in flight.
C18_OneJobPerModuleUnlessSuperseded ==
    /\ \A h \in Running \ call.superseded :
          /\ Cardinality(JobsOf(h)) = 1
          /\ h \in transpileJobs
    /\ transpileJobs \subseteq Running

\* transpileModules was called again for a transpiled module whose job is in
\* flight, and started none
C18_SecondRequestShared ==
    /\ last.op = "transpileModules:jobs"
    /\ last.transpiled = {}
    /\ Hash(IndexPath, "") \in Running \ call.superseded
    /\ Hash(IndexPath, "") \in transpileJobs
    /\ ~transpiledModulesByHash[Hash(IndexPath, "")].source

\* The paths of the store that the module map in force lacks and updateData
\* takes for deleted
DeletedPaths ==
    {p \in NonChildPaths : ~UnderNodeModules(p) /\ p # BrowserResolveEmptyPath /\ ~Has(modules', p)}

\* The paths of the new module map that the store lacks, or holds with other code
ChangedPaths ==
    {p \in DOMAIN modules' : ~Has(transpiledModules, p) \/ transpiledModules[p].module.code # modules'[p].code}

\* C19: updateData is atomic with respect to its diff. At its first
\* suspension point, whatever jobs are in flight, the store is the store of
\* the call time with the diff against the incoming module map applied:
\* added and updated paths hold the code of the map, deleted paths are gone,
\* every other entry keeps its Module, and the cache is emptied exactly when
\* a path was added or updated.
C19_UpdateDataAppliesItsDiff ==
    [][last'.op = "updateData:jobs" =>
        /\ \A p \in DOMAIN modules' :
              /\ Has(transpiledModules', p)
              /\ transpiledModules'[p].module.code = modules'[p].code
        /\ \A p \in DeletedPaths : ~Has(transpiledModules', p)
        /\ \A p \in DOMAIN transpiledModules \ (DeletedPaths \cup ChangedPaths) :
              /\ Has(transpiledModules', p)
              /\ transpiledModules'[p].module = transpiledModules[p].module
        /\ DOMAIN transpiledModules' \subseteq DOMAIN transpiledModules \cup DOMAIN modules'
        /\ last'.changed = (DeletedPaths \cup ChangedPaths # {})
        /\ ChangedPaths # {} => cachedPaths' = EmptyMap
        /\ transpileJobs' = last'.transpiled]_vars

\* updateData changed the store while jobs started before it were in flight
C19_UpdatedAmidJobs ==
    /\ last.op = "updateData:jobs"
    /\ last.changed
    /\ call.superseded # {}
    /\ \E p \in DOMAIN last.cacheBefore : TRUE

-----------------------------------------------------------------------------
(* Properties: the file resolver *)

\* C20 as the spec states it: the file resolver is used only in the
\* transpilation stage. Once the stage is evaluation, a resolution, through
\* isFile and readFileSync, sends no request to the file resolver, and isFile
\* answers from the store alone, never from combinedMetas.
C20_NoFileResolverRequestInEvaluation ==
    [][stage = "evaluation" /\ last'.op \in {"resolveModule", "resolveModuleAsync"} =>
        /\ last'.requests = {}
        /\ \A p \in combinedMetas : isFile(This, p) = Has(transpiledModules, p)]_vars

-----------------------------------------------------------------------------
(* Properties: what serialize persists *)

\* The transpiled modules reachable from the store
StoredTModules == UNION {Values(transpiledModules[p].tModules) : p \in DOMAIN transpiledModules}

\* The module needed transpilation when the manifest was set
RequiredTranspilation(module) == shouldTranspile(module.code, module.path)

\* The transpiled module h is left out of the record serialize returned
Skipped(h) == h \notin DOMAIN saved'.transpiledModules

\* C21 as the spec states it: serialize skips a transpiled module if and only
\* if the manifest provides the content of its module, the module did not
\* require transpilation and it was not downloaded; every other one is in the
\* record under its id.
C21_SkippedIffPrecomputed ==
    [][last'.op = "serialize" =>
        \A h \in StoredTModules :
            Skipped(h) <=>
                /\ Has(manifest.contents, transpiledModulesByHash[h].module.path)
                /\ ~RequiredTranspilation(transpiledModulesByHash[h].module)
                /\ ~transpiledModulesByHash[h].module.downloaded]_vars

\* C21, amended: serialize skips a transpiled module if and only if the
\* manifest provides the content of its module, the module was not downloaded,
\* and either its path does not end in .js or it carries the requires the
\* manifest supplied; every other one is in the record under its id, and the
\* record holds nothing else.
C21_SkippedIffManifestModuleWithRequiresOrNotJs ==
    [][last'.op = "serialize" =>
        /\ \A h \in StoredTModules :
              Skipped(h) <=>
                  /\ Has(manifest.contents, transpiledModulesByHash[h].module.path)
                  /\ ~transpiledModulesByHash[h].module.downloaded
                  /\ \/ ~endsWithJs(transpiledModulesByHash[h].module.path)
                     \/ transpiledModulesByHash[h].module.requires
        /\ \A h \in StoredTModules \cap DOMAIN saved'.transpiledModules :
              saved'.transpiledModules[h] = transpiledModulesByHash[h]
        /\ DOMAIN saved'.transpiledModules \subseteq StoredTModules]_vars

\* serialize left out an ES module of the manifest under .mjs, which required
\* transpilation, and the CommonJS file beside it, and kept the entry
C21_SkippedModuleThatRequiredTranspilation ==
    /\ last.op = "serialize"
    /\ Has(transpiledModulesByHash, Hash(ReactMjsPath, ""))
    /\ RequiredTranspilation(transpiledModulesByHash[Hash(ReactMjsPath, "")].module)
    /\ Hash(ReactMjsPath, "") \notin DOMAIN saved.transpiledModules
    /\ Has(transpiledModulesByHash, Hash(ReactPath, ""))
    /\ Hash(ReactPath, "") \notin DOMAIN saved.transpiledModules
    /\ Hash(IndexPath, "") \in DOMAIN saved.transpiledModules

-----------------------------------------------------------------------------
(* Properties: updateConfigurations *)

\* Every transpiled module is without source and without compilation
AllModulesReset ==
    \A h \in DOMAIN transpiledModulesByHash' :
        ~transpiledModulesByHash'[h].source /\ ~transpiledModulesByHash'[h].compilation

\* The bundle handed in and the stored one hold other files or other contents
BundleDiffers ==
    {<<k, last'.parsed.hasSandbox, last'.parsed.hardReloadOnChange>> : k \in {last'.parsed.keys[i] : i \in 1..Len(last'.parsed.keys)}}
        # {<<k, configurations.hasSandbox, configurations.hardReloadOnChange>> : k \in {configurations.keys[i] : i \in 1..Len(configurations.keys)}}

\* The bundle handed in and the stored one are written differently by
\* JSON.stringify: they hold other files or contents, or the same in another order
BundleWrittenDiffers ==
    \/ last'.parsed.keys # configurations.keys
    \/ last'.parsed.hasSandbox # configurations.hasSandbox
    \/ last'.parsed.hardReloadOnChange # configurations.hardReloadOnChange

\* C22 as the spec states it: updateConfigurations(parsed) resets the source
\* and the compilation of every transpiled module if and only if parsed
\* differs from the stored bundle by deep comparison; when they are equal no
\* transpiled module is reset; in both cases the stored bundle becomes parsed.
C22_ResetIffBundleDiffers ==
    [][last'.op = "updateConfigurations" =>
        /\ BundleDiffers => AllModulesReset
        /\ ~BundleDiffers => transpiledModulesByHash' = transpiledModulesByHash
        /\ configurations' = last'.parsed]_vars

\* C22, amended: updateConfigurations(parsed) resets the source and the
\* compilation of every transpiled module if and only if JSON.stringify
\* writes parsed and the stored bundle differently, which it also does for
\* bundles with the same contents whose keys are in another order; when the
\* two are written alike no transpiled module is reset; in both cases the
\* stored bundle becomes parsed.
C22_ResetIffBundleWrittenDiffers ==
    [][last'.op = "updateConfigurations" =>
        /\ BundleWrittenDiffers => AllModulesReset
        /\ ~BundleWrittenDiffers => transpiledModulesByHash' = transpiledModulesByHash
        /\ configurations' = last'.parsed]_vars

\* A bundle with the contents of the stored one and its keys in another order
\* was handed in, and a transpiled and evaluated module lost its source and
\* its compilation
C22_ReorderedBundleReset ==
    /\ last.op = "updateConfigurations"
    /\ last.parsed.keys = <<"package", "sandbox">>
    /\ last.parsed.hardReloadOnChange
    /\ last.stored.keys = <<"sandbox", "package">>
    /\ last.stored.hardReloadOnChange
    /\ last.compiled # {}
    /\ \A h \in DOMAIN transpiledModulesByHash : ~transpiledModulesByHash[h].source /\ ~transpiledModulesByHash[h].compilation

-----------------------------------------------------------------------------
(* Properties: what updateData resolves to *)

\* C23 as the spec states it: updateData resolves to the list of the
\* transpiled modules this call retranspiled: the list holds no placeholder
\* for a module that was not retranspiled, and every element of it is a
\* transpiled module with its new source.
C23_ResolvesToRetranspiledModules ==
    (last.op = "updateData" /\ last.out.ok) =>
        /\ last.skipped = {}
        /\ \A h \in last.transpiled : Has(transpiledModulesByHash, h) /\ transpiledModulesByHash[h].source

-----------------------------------------------------------------------------
(* The HMR status when an operation fails *)

\* transpileModules or evaluateModule ended with an error for its caller
OperationFailed == last.op \in {"transpileModules", "evaluateModule"} /\ ~last.out.ok

\* C24 as the spec states it: when transpileModules or evaluateModule fails,
\* the HMR status becomes fail
C24_FailureSetsStatusFail == OperationFailed => hmrStatus = "fail"

\* C24: when transpileModules or evaluateModule fails, the error reaches the
\* caller and the manager does not touch the status for it: no listener is
\* told of fail, a failed transpileModules leaves the status check it set at
\* its start, and a failed evaluateModule leaves the status it found, or
\* apply when a dirty module was evaluated
C24_FailureLeavesStatus ==
    [][/\ (last'.op = "transpileModules" /\ ~last'.out.ok) => (hmrStatus' = "check" /\ notified' = notified)
       /\ (last'.op = "evaluateModule" /\ ~last'.out.ok) =>
              /\ hmrStatus' \in {hmrStatus, "apply"}
              /\ \A i \in 1..Len(notified') : notified'[i][2] = "apply"]_vars

\* evaluateModule failed while a listener was registered and the status was check
C24_EvaluationFailedUnderCheck ==
    /\ last.op = "evaluateModule" /\ ~last.out.ok
    /\ hmrStatusChangeListeners # <<>>
    /\ hmrStatus = "check"

\* transpileModules failed while a listener was registered
C24_TranspilationFailed ==
    /\ last.op = "transpileModules" /\ ~last.out.ok
    /\ hmrStatusChangeListeners # <<>>

-----------------------------------------------------------------------------
(* The broadcast of the HMR status *)

\* How many times the calls n told the listener cb of the status
Told(cb, status, n) == Cardinality({i \in 1..Len(n) : n[i] = <<cb, status>>})

Registered(cb) == \E i \in 1..Len(hmrStatusChangeListeners) : hmrStatusChangeListeners[i] = cb

\* The step told every listener registered before it of the status, once, told
\* nobody else and nothing else, and left the status stored
Broadcast(status) ==
    /\ hmrStatus' = status
    /\ Len(notified') = Len(hmrStatusChangeListeners)
    /\ \A cb \in Listeners : Told(cb, status, notified') = IF Registered(cb) THEN 1 ELSE 0

\* C25: setHmrStatus(s) calls every registered listener exactly once with s,
\* calls no listener that removeStatusHandler removed, and leaves hmrStatus = s;
\* transpileModules broadcasts check at its start and markHardReload
\* broadcasts fail
C25_StatusBroadcast ==
    [][/\ last'.op = "setHmrStatus" =>
              /\ Broadcast(last'.status)
              /\ \A cb \in last'.removed : Told(cb, last'.status, notified') = 0
       /\ last'.op = "transpileModules:await" => Broadcast("check")
       /\ last'.op = "markHardReload" => Broadcast("fail")]_vars

\* setHmrStatus told the one listener left after the other had just been removed
C25_ToldAfterRemoval ==
    /\ last.op = "setHmrStatus"
    /\ last.removed # {}
    /\ Len(notified) = 1
    /\ notified[1][1] \notin last.removed

\* transpileModules told two listeners of check
C25_CheckToldToBoth == last.op = "transpileModules:await" /\ Len(notified) = 2

\* markHardReload told two listeners of fail
C25_FailToldToBoth == last.op = "markHardReload" /\ Len(notified) = 2

-----------------------------------------------------------------------------
(* Hard reloads *)

C26_EvaluatedDuringFirstLoad ==
    /\ last.op = "evaluateModule"
    /\ hardReload /\ isFirstLoad
    /\ last.out.ok /\ ~last.reloaded
    /\ last.evaluated # <<>>

-----------------------------------------------------------------------------
(* The order of evaluation in evaluateModule *)

\* The transpiled modules whose HMR state is dirty
DirtyHashes ==
    {h \in DOMAIN transpiledModulesByHash :
        transpiledModulesByHash[h].hmrConfig /\ transpiledModulesByHash[h].hmrDirty}

\* The calls ev are one evaluation of every dirty module, then one of the entry h
AllDirtyThenEntry(ev, h) ==
    /\ Len(ev) = Cardinality(DirtyHashes) + 1
    /\ {ev[i] : i \in 1..(Len(ev) - 1)} = DirtyHashes
    /\ ev[Len(ev)] = h

\* The calls ev are evaluations of dirty modules, each once, of which the last threw
DirtyModuleThrew(ev, out) ==
    /\ ~out.ok
    /\ ev # <<>>
    /\ Cardinality({ev[i] : i \in 1..Len(ev)}) = Len(ev)
    /\ {ev[i] : i \in 1..Len(ev)} \subseteq DirtyHashes
    /\ out.path = transpiledModulesByHash[ev[Len(ev)]].module.path

\* C27: an evaluateModule that does not reload the page evaluates every dirty
\* transpiled module before the entry and then the entry exactly once; only an
\* error thrown by a dirty module ends it earlier, and the entry is then not
\* evaluated as the entry at all
C27_DirtyModulesBeforeEntry ==
    [][(last'.op = "evaluateModule" /\ ~last'.reloaded) =>
           \/ AllDirtyThenEntry(last'.evaluated, Hash(last'.path, ""))
           \/ DirtyModuleThrew(last'.evaluated, last'.out)]_vars

\* evaluateModule evaluated a dirty module other than its entry, then the
\* entry, and returned the exports
C27_DirtyModuleThenEntry ==
    /\ last.op = "evaluateModule"
    /\ last.out.ok
    /\ Len(last.evaluated) = 2
    /\ last.evaluated[1] # last.evaluated[2]
    /\ last.evaluated[2] = Hash(last.path, "")

-----------------------------------------------------------------------------
(* The postEvaluate hooks *)

\* The calls hooks are one call for every transpiled module of the registry
OnceOnEveryTModule(hooks, registry) ==
    /\ Len(hooks) = Cardinality(DOMAIN registry)
    /\ {hooks[i] : i \in 1..Len(hooks)} = DOMAIN registry

\* C28: once evaluateModule has evaluated its entry, whether the entry gave
\* its exports or threw, postEvaluate is called exactly once on every
\* transpiled module of the registry; no hook is called when the entry was not
\* evaluated (the page was reloaded, or a dirty module threw before the entry)
C28_PostEvaluateOnceAfterEntry ==
    [][last'.op = "evaluateModule" =>
           IF ~last'.reloaded /\ AllDirtyThenEntry(last'.evaluated, Hash(last'.path, ""))
           THEN OnceOnEveryTModule(last'.postEvaluated, transpiledModulesByHash')
           ELSE last'.postEvaluated = <<>>]_vars

\* The entry threw and postEvaluate was still called on both transpiled modules
C28_HooksAfterEntryThrew ==
    /\ last.op = "evaluateModule"
    /\ ~last.out.ok
    /\ Len(last.evaluated) = 1
    /\ Len(last.postEvaluated) = 2

\* The entry gave its exports and postEvaluate was called on both transpiled modules
C28_HooksAfterExports ==
    /\ last.op = "evaluateModule"
    /\ last.out.ok
    /\ ~last.reloaded
    /\ Len(last.postEvaluated) = 2

-----------------------------------------------------------------------------
(* The status after an evaluation *)

\* evaluateModule returned the exports of its entry
ExportsReturned == last.op = "evaluateModule" /\ last.out.ok /\ ~last.reloaded

\* C29: after evaluateModule has returned the exports of its entry, the HMR
\* status is idle whatever it was at the call, and idle is the last status
\* every registered listener was told
C29_IdleAfterExports ==
    ExportsReturned =>
        /\ hmrStatus = "idle"
        /\ Len(notified) >= Len(hmrStatusChangeListeners)
        /\ \A i \in 1..Len(hmrStatusChangeListeners) :
               notified[Len(notified) - Len(hmrStatusChangeListeners) + i] = <<hmrStatusChangeListeners[i], "idle">>

\* evaluateModule was called under the status fail, returned exports and told
\* a listener of idle
C29_IdleAfterFail ==
    /\ ExportsReturned
    /\ last.status = "fail"
    /\ hmrStatus = "idle"
    /\ notified # <<>>

C29_IdleAfterCheck == ExportsReturned /\ last.status = "check"

C29_IdleAfterDispose == ExportsReturned /\ last.status = "dispose"

\* evaluateModule was called under the status apply, evaluated a dirty module and returned exports
C29_IdleAfterApply == ExportsReturned /\ last.status = "apply" /\ Len(last.evaluated) = 2

-----------------------------------------------------------------------------
(* The stage during evaluation *)

\* C30 as the spec states it: when evaluateModule evaluates a transpiled
\* module, the stage is evaluation
C30_EvaluatesInEvaluationStage ==
    (last.op = "evaluateModule" /\ last.evaluated # <<>>) => stage = "evaluation"

\* C30: evaluateModule leaves the stage as it found it; the stage changes
\* only when the caller calls setStage, so a manager still in the stage
\* transpilation evaluates in that stage
C30_EvaluateModuleKeepsStage ==
    [][/\ last'.op = "evaluateModule" => stage' = stage
       /\ stage' # stage => last'.op = "setStage"]_vars

\* evaluateModule evaluated its entry and returned exports in the stage transpilation
C30_EvaluatedInTranspilationStage ==
    /\ last.op = "evaluateModule"
    /\ last.out.ok
    /\ last.evaluated # <<>>
    /\ stage = "transpilation"

-----------------------------------------------------------------------------
(* The hard-reload flag after updateData *)

\* The sandbox configuration asks for a hard reload on change
HardReloadOnChange == configurations.hasSandbox /\ configurations.hardReloadOnChange

\* C31 as the spec states it: if the sandbox configuration sets
\* hardReloadOnChange, hardReload is true after updateData returns
C31_HardReloadAfterUpdateData == (last.op = "updateData" /\ HardReloadOnChange) => hardReload

\* C31: if the sandbox configuration sets hardReloadOnChange and the call
\* added or updated at least one module, hardReload is true after updateData
\* returns; when the call changed no module the flag is false
C31_HardReloadAfterChange ==
    (last.op = "updateData" /\ HardReloadOnChange) => (hardReload = last.modified)

\* updateData changed a module under hardReloadOnChange and returned with hardReload set
C31_MarkedAfterChange ==
    /\ last.op = "updateData"
    /\ HardReloadOnChange
    /\ last.modified
    /\ hardReload

\* updateData with the modules the store already holds returned under
\* hardReloadOnChange with hardReload false
C31_NotMarkedWithoutChange ==
    /\ last.op = "updateData"
    /\ HardReloadOnChange
    /\ ~last.modified
    /\ ~hardReload

\* C37: updateData discards a pending hard reload: after it returns,
\* hardReload is true exactly when this call added or updated a module and the
\* sandbox configuration sets hardReloadOnChange, whatever the flag was at the
\* call, and isFirstLoad is false from then on
C37_UpdateDataDiscardsPendingReload ==
    /\ [](last.op = "updateData" =>
              /\ hardReload = (last.modified /\ HardReloadOnChange)
              /\ ~isFirstLoad)
    /\ [][~isFirstLoad => ~isFirstLoad']_vars

\* A hard reload scheduled by markHardReload was pending at the call of an
\* updateData that changed a module; it is gone after the return
C37_PendingReloadDiscarded ==
    /\ last.op = "updateData"
    /\ last.pending
    /\ last.modified
    /\ ~hardReload

-----------------------------------------------------------------------------
(* What updateData retranspiles *)

\* updateData arrived at its await: the transpilations it starts are known
UpdateDataStarted == last.op = "updateData:await"

\* The transpiled modules of the registry that were flagged at the call
StillFlagged == last.diff.flagged \cap DOMAIN transpiledModulesByHash

\* C32 as the spec states it: updateData retranspiles the variants of the
\* added and updated modules and the modules flagged with missing
\* dependencies, and no other
C32_RetranspilesDirtyAndFlaggedOnly ==
    UpdateDataStarted => last.diff.started = last.diff.variants \cup StillFlagged

\* C32: updateData retranspiles every variant of every added or updated module
\* and every module flagged with missing dependencies, the latter after
\* resetting its transpilation, unless it is a test file: a test file is reset
\* and not transpiled. The only other modules it retranspiles are those that
\* carried an error at the call and have no source
C32_RetranspilesDirtyFlaggedAndFailed ==
    UpdateDataStarted =>
        /\ (last.diff.variants \cup StillFlagged) \ last.diff.tests \subseteq last.diff.started
        /\ \A h \in last.diff.variants \cup StillFlagged :
               ~transpiledModulesByHash[h].source /\ transpiledModulesByHash[h].dependencies = {}
        /\ last.diff.started \cap last.diff.tests = {}
        /\ \A h \in last.diff.started \ (last.diff.variants \cup StillFlagged) :
               h \in last.diff.erroneous /\ ~transpiledModulesByHash[h].source

\* updateData started the transpilation of two variants of an updated module,
\* one of them flagged with missing dependencies
C32_VariantsAndFlaggedStarted ==
    /\ UpdateDataStarted
    /\ Cardinality(last.diff.variants) >= 2
    /\ last.diff.variants \subseteq last.diff.started
    /\ StillFlagged # {}
    /\ StillFlagged \subseteq last.diff.started

\* updateData reset an updated test file without transpiling it
C32_TestFileNotRetranspiled ==
    /\ UpdateDataStarted
    /\ last.diff.variants \cap last.diff.tests # {}

\* updateData retranspiled a module that only carried the error of a failed transpilation
C32_FailedModuleRetranspiled ==
    /\ UpdateDataStarted
    /\ last.diff.started \ (last.diff.variants \cup StillFlagged) # {}

-----------------------------------------------------------------------------
(* The cache after a failed lookup *)

\* The entries of a cache: directory, request and the path cached for it
CacheEntries(cache) ==
    UNION {{<<d, r, cache[d][r]>> : r \in DOMAIN cache[d]} : d \in DOMAIN cache}

\* The step left no entry for the request from the directory and every other
\* entry as it was
EntryPurged(dirredPath, path) ==
    /\ ~(Has(cachedPaths', dirredPath) /\ Has(cachedPaths'[dirredPath], path))
    /\ CacheEntries(cachedPaths') = {e \in CacheEntries(cachedPaths) : ~(e[1] = dirredPath /\ e[2] = path)}

\* C33: whenever resolveModule or resolveModuleAsync fails for (request,
\* fromPath), cachedPaths[dirname(fromPath)][request] is absent afterwards and
\* every other cache entry is unchanged
C33_FailedLookupPurgesEntry ==
    [][(last'.op \in {"resolveModule", "resolveModuleAsync"} /\ ~last'.out.ok) =>
           EntryPurged(dirname(last'.from), last'.path)]_vars

\* The same for resolveModule alone
FailedSyncLookupPurgesEntry ==
    [][(last'.op = "resolveModule" /\ ~last'.out.ok) => EntryPurged(dirname(last'.from), last'.path)]_vars

\* The same for the failures of resolveModuleAsync that come from its catch block
CaughtAsyncLookupPurgesEntry ==
    [][(last'.op = "resolveModuleAsync" /\ ~last'.out.ok /\ last'.out.error # "TypeError") =>
           EntryPurged(dirname(last'.from), last'.path)]_vars

-----------------------------------------------------------------------------
(* Restoration with broken references *)

\* load restored from the record it was handed
RestoredFromRecord == last.op = "load" /\ last.valid /\ last.version = SCRIPT_VERSION /\ last.query = getDependencyQuery(This)

\* The serialized transpiled modules of the record with a reference to a
\* module that neither the record nor the store holds
BrokenTModules ==
    {h \in DOMAIN last.record.transpiledModules :
        \E r \in last.record.transpiledModules[h].dependencies \cup last.record.transpiledModules[h].initiators :
            r \notin DOMAIN last.record.transpiledModules /\ ~Has(transpiledModules, r[1])}

\* The transpiled module h is back with the fields and the edges of the record
RestoredTModule(h) ==
    /\ Has(transpiledModulesByHash, h)
    /\ transpiledModulesByHash[h].module = last.record.transpiledModules[h].module
    /\ transpiledModulesByHash[h].query = last.record.transpiledModules[h].query
    /\ transpiledModulesByHash[h].source = last.record.transpiledModules[h].source
    /\ last.record.transpiledModules[h].dependencies \subseteq transpiledModulesByHash[h].dependencies
    /\ last.record.transpiledModules[h].initiators \subseteq transpiledModulesByHash[h].initiators

\* C34: a broken or missing reference in one serialized transpiled module
\* aborts the restoration of that module only: load returns without an error
\* and every serialized module without a broken reference is restored, with
\* its fields and its edges
C34_BrokenReferenceAbortsOneTModule ==
    (last.op = "load" => last.out.ok)
    /\ (RestoredFromRecord => \A h \in DOMAIN last.record.transpiledModules \ BrokenTModules : RestoredTModule(h))

\* load restored two transpiled modules of a record in which a third one has
\* a broken reference and did not get all of its edges
C34_RestoredBesideBrokenTModule ==
    /\ RestoredFromRecord
    /\ BrokenTModules # {}
    /\ Cardinality(DOMAIN last.record.transpiledModules \ BrokenTModules) = 2
    /\ \E h \in BrokenTModules :
            ~(last.record.transpiledModules[h].dependencies \subseteq transpiledModulesByHash[h].dependencies)

-----------------------------------------------------------------------------
(* Properties: the promise of resolveModuleAsync *)

\* resolveModuleAsync found the file: the path it cached is in the store
LookupSucceeded ==
    /\ last.op = "resolveModuleAsync"
    /\ Has(cachedPaths, dirname(last.from))
    /\ Has(cachedPaths[dirname(last.from)], last.path)
    /\ Has(transpiledModules, cachedPaths[dirname(last.from)][last.path])

\* The module at the path resolveModuleAsync cached
FoundModule == transpiledModules[cachedPaths[dirname(last.from)][last.path]].module

\* Every file read from the file resolver is in the store with the code the
\* file resolver answered
FetchedFilesStored ==
    \A r \in last.requests :
        r[1] = "readFile" => Has(transpiledModules, r[2]) /\ transpiledModules[r[2]].module.code = readFile(r[2])

\* C35: whenever its lookup succeeds, resolveModuleAsync settles its promise
\* with the module found, whether the resolver called back at once or after
\* waiting for the file resolver, and a file fetched on the way is in the store
\* with the content the file resolver returned
C35_SettlesWithModuleFound ==
    LookupSucceeded => last.out.ok /\ last.out.module = FoundModule /\ FetchedFilesStored

\* The same when the resolver called back before resolve() returned
SettlesWithModuleFoundAtOnce ==
    LookupSucceeded /\ last.requests = {} => last.out.ok /\ last.out.module = FoundModule

\* After waiting for the file resolver the promise is rejected, and the files
\* fetched are in the store all the same
RejectsAfterFileResolver ==
    last.op = "resolveModuleAsync" /\ last.requests # {} => last.out.error = "TypeError" /\ FetchedFilesStored

\* A file of the host was found and fetched through the file resolver
FetchedFromHost ==
    LookupSucceeded /\ \E r \in last.requests : r[1] = "readFile" /\ r[2] \in HostFiles

-----------------------------------------------------------------------------
(* Properties: where the empty shim is registered *)

\* The request is one the resolver answers with the empty shim: a Node
\* built-in, or a module the browser field of the package disables
ShimmedRequest(path, currentPath) ==
    \/ coreLibraries(getAliasedDependencyPath(This, getPresetAliasedPath(path), currentPath)) \in NODE_LIBS
    \/ browserFieldDisables(This, path, currentPath)

\* The store holds the shim at path p, with a transpiled module for the query
ShimRegisteredAt(store, registry, p, query) ==
    /\ Has(store, p)
    /\ store[p].module.code = EmptyCode
    /\ Has(store[p].tModules, query)
    /\ Has(registry, Hash(p, query))

\* C36: resolving a shimmed request through resolveTranspiledModule registers
\* the shim under join(dirname(fromPath), request): afterwards the store holds
\* an entry and a transpiled module at that path with the code `// empty`, and
\* resolveTranspiledModule creates no entry at /node_modules/empty/index.js
C36_ShimRegisteredBesideRequester ==
    [][last'.op = "resolveTranspiledModule" /\ ShimmedRequest(last'.path, last'.from) =>
        /\ ShimRegisteredAt(transpiledModules', transpiledModulesByHash', join(dirname(last'.from), last'.path), "")
        /\ Has(transpiledModules', ShimCanonicalPath) => Has(transpiledModules, ShimCanonicalPath)]_vars

\* The store has gained the shim of a built-in beside /index.js
C36_BuiltInShimInStore ==
    /\ last.op = "resolveTranspiledModule"
    /\ last.path = ReqSys
    /\ last.from = IndexPath
    /\ ShimRegisteredAt(transpiledModules, transpiledModulesByHash, <<"", "sys">>, "")
    /\ ~Has(transpiledModules, ShimCanonicalPath)

\* The same for a module the browser field disables, and for a requester
\* inside a dependency
C36_DisabledModuleShimInStore ==
    /\ last.op = "resolveTranspiledModule"
    /\ last.path = ReqWs
    /\ ShimRegisteredAt(transpiledModules, transpiledModulesByHash, <<"", "ws">>, "")
    /\ \E p \in DOMAIN transpiledModules : p = <<"", "node_modules", "react", "fs">>

-----------------------------------------------------------------------------
(* Errors thrown during evaluateModule *)

\* The calls ev of a failed evaluateModule ended in the pass over the dirty
\* modules: the entry was not evaluated after them
ThrewInDirtyPass(ev, out) == DirtyModuleThrew(ev, out) /\ Len(ev) <= Cardinality(DirtyHashes)

\* The calls ev of a failed evaluateModule ended with the entry h
ThrewInEntry(ev, out, h) == ~out.ok /\ AllDirtyThenEntry(ev, h)

\* The step did not set the status to idle: no listener was told of idle and
\* the status is idle only if it was before
NotSetToIdle ==
    /\ \A i \in 1..Len(notified') : notified'[i][2] # "idle"
    /\ hmrStatus' = "idle" => hmrStatus = "idle"

\* C38: when a dirty transpiled module throws, evaluateModule does not
\* evaluate its entry, calls no postEvaluate hook and does not set the status
\* to idle; when the entry throws, postEvaluate still runs on every transpiled
\* module and the status is likewise not set to idle
C38_ErrorsDuringEvaluation ==
    [][last'.op = "evaluateModule" /\ ~last'.out.ok =>
           /\ NotSetToIdle
           /\ \/ ThrewInDirtyPass(last'.evaluated, last'.out) /\ last'.postEvaluated = <<>>
              \/ /\ ThrewInEntry(last'.evaluated, last'.out, Hash(last'.path, ""))
                 /\ OnceOnEveryTModule(last'.postEvaluated, transpiledModulesByHash')]_vars

\* The entry threw under a status other than idle while a listener was
\* registered, and postEvaluate ran on the transpiled modules
C38_EntryThrewWithListener ==
    /\ last.op = "evaluateModule" /\ ~last.out.ok
    /\ hmrStatusChangeListeners # <<>>
    /\ last.status # "idle"
    /\ last.evaluated # <<>>
    /\ last.evaluated[Len(last.evaluated)] = Hash(last.path, "")
    /\ Len(last.postEvaluated) = 2

\* A dirty module threw while a listener was registered; no hook was called
C38_DirtyThrewWithListener ==
    /\ last.op = "evaluateModule" /\ ~last.out.ok
    /\ hmrStatusChangeListeners # <<>>
    /\ last.evaluated # <<>>
    /\ last.postEvaluated = <<>>
    /\ Cardinality(DOMAIN transpiledModulesByHash) = 2

-----------------------------------------------------------------------------
(* Properties: the round trip of the meta index *)

\* The step is a load of the record serialize writes for the present state,
\* taken as a match
LoadsOwnRecord ==
    /\ last'.op = "load"
    /\ last'.record = saved
    /\ saved.valid
    /\ saved.version = SCRIPT_VERSION
    /\ saved.dependenciesQuery = getDependencyQuery(This)
    /\ saved.meta = metaOf(combinedMetas)

\* C39: the meta index round-trips: for any set of combinedMetas paths under
\* /node_modules, files directly under /node_modules and paths with a nested
\* node_modules segment included, load of the index written by serialize
\* yields exactly the same set of paths
C39_MetaIndexRoundTrips ==
    [][LoadsOwnRecord /\ combinedMetas \subseteq MetaPaths => combinedMetas' = combinedMetas]_vars

\* The same for the paths inside a package directory
MetaIndexRoundTripsInPackages ==
    [][LoadsOwnRecord /\ combinedMetas \subseteq {p \in MetaPaths : Len(p) > 3} => combinedMetas' = combinedMetas]_vars

\* A file directly under /node_modules comes back behind an empty segment,
\* and the path it had is lost
FileOfNodeModulesMoves ==
    [][LoadsOwnRecord =>
        \A p \in combinedMetas \cap MetaPaths :
            Len(p) = 3 => p \notin combinedMetas' /\ <<"", "node_modules", "", p[3]>> \in combinedMetas']_vars

\* The index of two files of a package and of a nested package was loaded back
NestedMetasRestored ==
    /\ last.op = "load"
    /\ last.record.valid
    /\ Cardinality(DOMAIN last.record.meta) = 2
    /\ combinedMetas = {p \in MetaPaths : Len(p) > 3}

\* A record with a file directly under /node_modules was loaded
FileOfNodeModulesLoaded ==
    /\ last.op = "load"
    /\ last.record.valid
    /\ <<"", "node_modules", "", "index.js">> \in combinedMetas

=============================================================================
